---- MODULE Spec2Model ----
(***************************************************************************)
(* State-machine model of the Azure DevOps API client                      *)
(* (src/services/azureDevOpsClient.ts, src/services/apiError.ts).          *)
(*                                                                         *)
(* The client is a process-wide singleton used by several asynchronous     *)
(* callers.  JavaScript runs each piece of code between two `await`s       *)
(* atomically, so every action below is the code from one suspension point *)
(* to the next.  `await fetch(...)` and the following `await               *)
(* response.json()` are one step: no client state is read or written       *)
(* between them.  A wrapper's continuation after `await this.request(...)` *)
(* touches no client state either and is folded into the step that         *)
(* settles the request.                                                    *)
(***************************************************************************)
EXTENDS Integers, Sequences, FiniteSets, TLC

(***************************************************************************)
(* Bounds of the model.                                                    *)
(***************************************************************************)
MaxTime == 2         \* the clock runs from 0 to MaxTime
MaxCalls == 2        \* operation calls started in one behaviour
MaxClears == 2       \* initialize() and clearCache() calls in one behaviour
MaxRetriesOpt == 2   \* largest maxRetries option passed to the constructor
MaxCeiling == 7      \* largest maxRetries option where the length of the waits is looked at

Procs == {"c1", "c2"}   \* concurrent callers (button actions)

(***************************************************************************)
(* Program constants.                                                      *)
(***************************************************************************)
DefaultMaxRetries == 3   \* options.maxRetries || 3
DefaultCacheTtl == 1     \* options.cacheTtl || 5 * 60 * 1000; one clock tick is 5 minutes
BaseUrl == "https://dev.azure.com/"
ApiVersion == "7.1"

Min(a, b) == IF a < b THEN a ELSE b
Max(a, b) == IF a > b THEN a ELSE b

(***************************************************************************)
(* Optional values: null/undefined is the empty sequence.                  *)
(***************************************************************************)
Null == << >>
Some(x) == << x >>

(***************************************************************************)
(* JSON values as the client sees them.  An "object" stands for            *)
(* { value: items }, an "array" for the list items, an "item" for one      *)
(* element taken out of a list.  "invalid" is a body response.json()       *)
(* rejects.                                                                *)
(***************************************************************************)
JNull == [t |-> "null", items |-> << >>]
JUndefined == [t |-> "undefined", items |-> << >>]
JInvalid == [t |-> "invalid", items |-> << >>]
JArray(s) == [t |-> "array", items |-> s]
JObject(s) == [t |-> "object", items |-> s]
JItem(x) == [t |-> "item", items |-> << x >>]
JBool(b) == [t |-> IF b THEN "true" ELSE "false", items |-> << >>]
JString(s) == [t |-> "string", items |-> << s >>]

\* JavaScript truthiness of a value (`if (cachedData)`, `!response`)
Truthy(j) == j.t \notin {"null", "undefined", "false"} /\ j # JString("")

\* Bodies the remote endpoint may send
Bodies == {JNull, JArray(<< >>), JArray(<< "b1" >>), JObject(<< "x1" >>), JInvalid}

(***************************************************************************)
(* apiError.ts                                                             *)
(***************************************************************************)
ApiErrorType == [Network |-> "network", Authentication |-> "authentication",
                 RateLimit |-> "rateLimit", NotFound |-> "notFound",
                 ServerError |-> "serverError", Unknown |-> "unknown"]

NoError == [name |-> "", message |-> "", type |-> "", statusCode |-> 0, retryable |-> FALSE]

\* new ApiError(message, type, statusCode, retryable)
ApiError(type, statusCode, retryable) ==
    [name |-> "ApiError", message |-> "API request failed", type |-> type,
     statusCode |-> statusCode, retryable |-> retryable]

\* any other thrown Error: no type, no status code, no retryable flag
OtherError(name, message) ==
    [name |-> name, message |-> message, type |-> "", statusCode |-> 0, retryable |-> FALSE]

NotInitializedError == OtherError("Error", "AzureDevOpsClient is not initialized. Call initialize() first.")
InvalidUrlError == OtherError("TypeError", "Invalid URL")
FetchFailedError == OtherError("TypeError", "Failed to fetch")
JsonSyntaxError == OtherError("SyntaxError", "Unexpected token")
NullPropertyError == OtherError("TypeError", "Cannot read properties of null")

(***************************************************************************)
(* Outcome of a call: nothing yet, a returned value or a thrown error.     *)
(***************************************************************************)
NoResult == [kind |-> "none", value |-> JUndefined, error |-> NoError]
Return(v) == [kind |-> "return", value |-> v, error |-> NoError]
Throw(e) == [kind |-> "throw", value |-> JUndefined, error |-> e]

(***************************************************************************)
(* What the fetch primitive can do: resolve with a response (status and    *)
(* body) or reject with a network-layer exception.                         *)
(***************************************************************************)
OkStatuses == {200}
FailStatuses == {400, 401, 404, 429, 503}
ErrorBody == JObject(<< "message" >>)
NetworkFailure == [kind |-> "reject", status |-> 0, body |-> JUndefined]
Response(s, b) == [kind |-> "response", status |-> s, body |-> b]
NoOutcome == [kind |-> "none", status |-> 0, body |-> JUndefined]
FetchOutcomes ==
    {Response(s, b) : s \in OkStatuses, b \in Bodies}
        \cup {Response(s, ErrorBody) : s \in FailStatuses}
        \cup {NetworkFailure}

\* the outcomes the callers of the concurrent specification meet
SharedOutcomes ==
    {Response(200, JNull), Response(200, JArray(<< "b1" >>)), Response(503, ErrorBody)}

\* the outcomes the single caller meets: every failure, one success of each kind
SoloOutcomes ==
    {Response(200, JArray(<< "b1" >>)), Response(200, JInvalid)}
        \cup {Response(s, ErrorBody) : s \in FailStatuses}
        \cup {NetworkFailure}

\* Response.ok
ResponseOk(status) == status >= 200 /\ status < 300

IsApiError(e) == e.name = "ApiError"

\* a variant that retries every ApiError, whatever its flag
isRetryableError_anyApiError(error) == IsApiError(error)

\* isRetryableError(error)
isRetryableError(error) == IF IsApiError(error) THEN error.retryable ELSE FALSE

\* a variant whose switch lacks `case 403`
ErrorForStatus_no403(status) ==
    CASE status = 401 -> ApiError(ApiErrorType.Authentication, status, FALSE)
      [] status = 404 -> ApiError(ApiErrorType.NotFound, status, FALSE)
      [] status = 429 -> ApiError(ApiErrorType.RateLimit, status, TRUE)
      [] status \in {500, 502, 503, 504} -> ApiError(ApiErrorType.ServerError, status, TRUE)
      [] OTHER -> ApiError(ApiErrorType.Unknown, status, status >= 500)

\* the ApiError handleApiResponse builds for a failure status
ErrorForStatus(status) ==
    CASE status \in {401, 403} -> ApiError(ApiErrorType.Authentication, status, FALSE)
      [] status = 404 -> ApiError(ApiErrorType.NotFound, status, FALSE)
      [] status = 429 -> ApiError(ApiErrorType.RateLimit, status, TRUE)
      [] status \in {500, 502, 503, 504} -> ApiError(ApiErrorType.ServerError, status, TRUE)
      [] OTHER -> ApiError(ApiErrorType.Unknown, status, status >= 500)

\* handleApiResponse(response)
handleApiResponse(response) ==
    IF ResponseOk(response.status)
    THEN IF response.body = JInvalid THEN Throw(JsonSyntaxError) ELSE Return(response.body)
    ELSE Throw(ErrorForStatus(response.status))

\* a variant that wraps a rejected fetch in a retryable ApiError
AttemptResult_wrapReject(outcome) ==
    IF outcome.kind = "reject" THEN Throw(ApiError(ApiErrorType.Network, 0, TRUE))
    ELSE IF outcome.body = JInvalid /\ ResponseOk(outcome.status)
         THEN Throw(ApiError(ApiErrorType.Unknown, outcome.status, TRUE))
         ELSE handleApiResponse(outcome)

\* what `await fetch(...)` followed by handleApiResponse yields
AttemptResult(outcome) ==
    IF outcome.kind = "reject" THEN Throw(FetchFailedError) ELSE handleApiResponse(outcome)


(***************************************************************************)
(* Credentials.  A token is its sequence of bytes; an organization URL is  *)
(* its text together with what `new URL(text)` makes of it: whether it     *)
(* parses and, if so, url.pathname.split('/').                             *)
(***************************************************************************)
OrgUrl(text, parses, pathSplit) == [text |-> text, parses |-> parses, pathSplit |-> pathSplit]

UrlAcme == OrgUrl("https://dev.azure.com/acme", TRUE, << "", "acme" >>)
UrlNoPath == OrgUrl("https://dev.azure.com", TRUE, << "", "" >>)
UrlInvalid == OrgUrl("invalid-url", FALSE, << >>)

Tok1 == << 116, 49 >>   \* "t1"
Tok2 == << 116, 50 >>   \* "t2"

AuthSettings(url, pat) == [organizationUrl |-> url, personalAccessToken |-> pat]

AuthInputs == {AuthSettings(UrlAcme, Tok1), AuthSettings(UrlAcme, Tok2),
               AuthSettings(UrlNoPath, Tok1), AuthSettings(UrlInvalid, Tok1)}

\* one token, every kind of organization URL
SoloAuthInputs == {a \in AuthInputs : a.personalAccessToken = Tok1}

\* credential rotation within one organization
SharedAuthInputs == {a \in AuthInputs : a.organizationUrl = UrlAcme}

\* Buffer.from(bytes).toString('base64'): 6-bit digits, 64 is the padding '='
RECURSIVE Base64(_)
Base64(bytes) ==
    IF Len(bytes) = 0 THEN << >>
    ELSE IF Len(bytes) = 1
         THEN << bytes[1] \div 4, (bytes[1] % 4) * 16, 64, 64 >>
    ELSE IF Len(bytes) = 2
         THEN << bytes[1] \div 4, (bytes[1] % 4) * 16 + bytes[2] \div 16,
                 (bytes[2] % 16) * 4, 64 >>
    ELSE << bytes[1] \div 4, (bytes[1] % 4) * 16 + bytes[2] \div 16,
            (bytes[2] % 16) * 4 + bytes[3] \div 64, bytes[3] % 64 >>
         \o Base64(SubSeq(bytes, 4, Len(bytes)))

\* a variant that encodes the token without the leading colon
BasicAuthorization_noColon(pat) == [scheme |-> "Basic", credentials |-> Base64(pat)]

\* `Basic ${base64(':' + personalAccessToken)}`
BasicAuthorization(pat) == [scheme |-> "Basic", credentials |-> Base64(<< 58 >> \o pat)]
NoAuthorization == [scheme |-> "", credentials |-> << >>]

(***************************************************************************)
(* The operations a caller can invoke, with their arguments.               *)
(***************************************************************************)
Call(op, project, repository, pipelineId, top, skip) ==
    [op |-> op, project |-> project, repository |-> repository,
     pipelineId |-> pipelineId, top |-> top, skip |-> skip]

NoCall == Call("", "", "", 0, 0, 0)

RequestOps == {"getPipelineDefinitions", "getPipelineStatus", "getPullRequests",
               "getRepositories", "getProjects", "queuePipelineRun",
               "getLatestPipelineRunUrl"}

Calls == {Call("getPipelineDefinitions", "proj", "", 0, 0, 0),
          Call("getPipelineStatus", "proj", "", 42, 0, 0),
          Call("getPullRequests", "proj", "repo", 0, 0, 0),
          Call("getRepositories", "proj", "", 0, 0, 0),
          Call("getProjects", "", "", 0, 1, 0),
          Call("queuePipelineRun", "proj", "", 42, 0, 0)}

\* getLatestPipelineRunUrl(project, pipelineId), which goes through getPipelineStatus
LatestRunUrlCall == Call("getLatestPipelineRunUrl", "proj", "", 42, 0, 0)

\* the calls the callers of the concurrent specification make
SharedCalls == {c \in Calls : c.op \in {"getPipelineDefinitions"}}

\* the path each wrapper passes to request()
Path(call) ==
    CASE call.op = "getPipelineDefinitions" -> call.project \o "/_apis/build/definitions"
      [] call.op \in {"getPipelineStatus", "getLatestPipelineRunUrl"} ->
            call.project \o "/_apis/build/builds?definitions=" \o ToString(call.pipelineId) \o "&$top=1"
      [] call.op = "getPullRequests" ->
            call.project \o "/_apis/git/repositories/" \o call.repository
                \o "/pullrequests?searchCriteria.status=active"
      [] call.op = "getRepositories" -> call.project \o "/_apis/git/repositories"
      [] call.op = "getProjects" ->
            "_apis/projects?$top=" \o ToString(call.top) \o "&$skip=" \o ToString(call.skip)
                \o "&stateFilter=All"
      [] call.op = "queuePipelineRun" -> call.project \o "/_apis/build/builds"
      [] OTHER -> ""

\* the path testConnection probes
TestConnectionPath == "_apis/projects?$top=1&$skip=0&stateFilter=All"

\* a variant in which queuePipelineRun passes no options
RequestOptions_plainGet(call) == [method |-> "undefined", body |-> "", skipCache |-> FALSE]

\* the IRequestOptions each wrapper passes; "undefined" is an absent method, "" an absent body
RequestOptions(call) ==
    IF call.op = "queuePipelineRun"
    THEN [method |-> "POST",
          body |-> "{\"definition\":{\"id\":" \o ToString(call.pipelineId) \o "}}",
          skipCache |-> TRUE]
    ELSE [method |-> "undefined", body |-> "", skipCache |-> FALSE]

\* a variant that caches every request
CacheEligible_always(options) == TRUE

\* !options.skipCache && (options.method === undefined || options.method === 'GET')
CacheEligible(options) == ~options.skipCache /\ options.method \in {"undefined", "GET"}

\* a variant that leaves the path out of the key
getCacheKey_noPath(path, options) ==
    "request" \o (IF options.body # "" THEN "-" \o ToString(options.body) ELSE "")

\* getCacheKey(path, options): an empty or absent body adds nothing
getCacheKey(path, options) ==
    path \o (IF options.body # "" THEN "-" \o ToString(options.body) ELSE "")

\* getOrganizationName() for a URL that parses: pathname.split('/').filter(Boolean)[0] || ''
OrganizationName(url) ==
    LET pathParts == SelectSeq(url.pathSplit, LAMBDA part : part # "")
    IN  IF Len(pathParts) > 0 THEN pathParts[1] ELSE ""

\* buildUrl(path) for a URL that parses
buildUrl(auth, path) ==
    BaseUrl \o OrganizationName(auth.organizationUrl) \o "/" \o path \o "?api-version=" \o ApiVersion

(***************************************************************************)
(* The cache: a map from key to entry.                                     *)
(***************************************************************************)
EmptyCache == [k \in {} |-> [data |-> JNull, expiry |-> 0]]

CacheSet(c, key, entry) == [k \in DOMAIN c \cup {key} |-> IF k = key THEN entry ELSE c[k]]
CacheDelete(c, key) == [k \in DOMAIN c \ {key} |-> c[k]]

\* a variant that never looks at the expiry
CacheLive_ignoreExpiry(c, key, t) == key \in DOMAIN c

\* getFromCache(key): an entry is live while entry.expiry >= Date.now()
CacheLive(c, key, t) == key \in DOMAIN c /\ ~(c[key].expiry < t)

\* value getFromCache returns (null on a miss)
getFromCache(c, key, t) == IF CacheLive(c, key, t) THEN c[key].data ELSE JNull

\* the cache after getFromCache: an expired entry is deleted
CacheAfterGet(c, key, t) ==
    IF key \in DOMAIN c /\ c[key].expiry < t THEN CacheDelete(c, key) ELSE c

\* a variant that keeps the entry a key already has
setInCache_keepFirst(c, key, data, t, ttl) ==
    IF key \in DOMAIN c THEN c ELSE CacheSet(c, key, [data |-> data, expiry |-> t + ttl])

\* setInCache(key, data)
setInCache(c, key, data, t, ttl) == CacheSet(c, key, [data |-> data, expiry |-> t + ttl])

(***************************************************************************)
(* What each wrapper makes of the outcome of request().                    *)
(***************************************************************************)
IsNotFound(r) == r.kind = "throw" /\ IsApiError(r.error) /\ r.error.type = ApiErrorType.NotFound

\* response.value (a TypeError on null)
ValueOf(response) ==
    IF response.t = "null" THEN Throw(NullPropertyError)
    ELSE IF response.t = "object" THEN Return(JArray(response.items))
    ELSE Return(JUndefined)

\* a variant without the length test
FirstOf_noEmptyCheck(response) ==
    IF ~Truthy(response) THEN JNull
    ELSE IF response.t = "array" /\ Len(response.items) > 0 THEN JItem(response.items[1])
    ELSE JUndefined

\* !response || response.length === 0 ? null : response[0]
FirstOf(response) ==
    IF ~Truthy(response) THEN JNull
    ELSE IF response.t = "array" /\ Len(response.items) = 0 THEN JNull
    ELSE IF response.t = "array" THEN JItem(response.items[1])
    ELSE JUndefined

\* getPipelineStatus: the first build or null; NotFound becomes null
PipelineStatus(r) ==
    IF r.kind = "return" THEN Return(FirstOf(r.value))
    ELSE IF IsNotFound(r) THEN Return(JNull) ELSE r

\* getLatestPipelineRunUrl: latestBuild.url of what getPipelineStatus gave, or null
LatestRunUrl(r) ==
    IF r.kind = "return"
    THEN IF ~Truthy(r.value) THEN Return(JNull)
         ELSE IF r.value.t = "item" THEN Return(JString("url-of-" \o r.value.items[1]))
         ELSE Return(JUndefined)
    ELSE IF IsNotFound(r) THEN Return(JNull) ELSE r

\* a variant in which every wrapper turns NotFound into an empty result
Wrapper_allTolerant(op, r) ==
    IF op = "getLatestPipelineRunUrl" THEN LatestRunUrl(PipelineStatus(r))
    ELSE IF r.kind = "return"
    THEN CASE op = "getPipelineStatus" -> Return(FirstOf(r.value))
           [] op \in {"getPullRequests", "getRepositories"} -> ValueOf(r.value)
           [] OTHER -> r
    ELSE IF IsNotFound(r)
         THEN IF op = "getPipelineStatus" THEN Return(JNull) ELSE Return(JArray(<< >>))
         ELSE r

Wrapper(op, r) ==
    CASE op = "getPipelineStatus" -> PipelineStatus(r)
      [] op = "getLatestPipelineRunUrl" -> LatestRunUrl(PipelineStatus(r))
      [] op \in {"getPullRequests", "getRepositories"} ->
            IF r.kind = "return"
            THEN ValueOf(r.value)
            ELSE IF IsNotFound(r) THEN Return(JArray(<< >>)) ELSE r
      [] OTHER -> r


(***************************************************************************)
(* The retry decision of request() and the probe of testConnection().      *)
(***************************************************************************)
\* a variant that never retries
GiveUp_always(attempt, ceiling, error) == TRUE

\* a variant with `attempt > this.maxRetries`
GiveUp_offByOne(attempt, ceiling, error) == attempt > ceiling \/ ~isRetryableError(error)

\* attempt >= this.maxRetries || !this.isRetryableError(error): give up
GiveUp(attempt, ceiling, error) == attempt >= ceiling \/ ~isRetryableError(error)

\* Math.random() in thousandths: the values 0, 0.5 and 0.998 of [0, 1)
Randoms == {0, 500, 998}

\* the draw the specifications that do not look at the wait's length use
MidRandom == 500

\* a variant without the Math.min cap
Backoff_uncapped(attempt, random) == ((1000 * 2^attempt) * (1500 + random)) \div 2000

\* backoffMs: Math.min(1000 * Math.pow(2, attempt), 30000) * (0.75 + Math.random() * 0.5)
Backoff(attempt, random) == (Min(1000 * 2^attempt, 30000) * (1500 + random)) \div 2000

\* a variant in which test mode ends the loop instead of skipping the wait
RetryStep_testModeStops(me, mode, backoffMs) ==
    IF mode
    THEN [me EXCEPT !.backoffMs = backoffMs, !.pc = "done",
                    !.result = Throw(AttemptResult(me.last).error)]
    ELSE [me EXCEPT !.backoffMs = backoffMs, !.pc = "backoff", !.waits = me.waits + 1]

\* the end of the catch block when the loop goes on: wait unless in test mode,
\* then `fetch` again
RetryStep(me, mode, backoffMs) ==
    IF mode
    THEN [me EXCEPT !.backoffMs = backoffMs, !.nets = me.nets + 1]
    ELSE [me EXCEPT !.backoffMs = backoffMs, !.pc = "backoff", !.waits = me.waits + 1]

\* the method fetch uses: GET when requestOptions.method is absent
FetchMethod(options) == IF options.method = "undefined" THEN "GET" ELSE options.method

\* a variant that builds the URL and the headers anew for every attempt
AttemptRequest_reread(me, auth, currentHeaders) ==
    [url |-> buildUrl(auth[1], Path(me.call)), authorization |-> currentHeaders,
     method |-> FetchMethod(RequestOptions(me.call))]

\* fetch(url, requestOptions): both were computed once, before the loop
AttemptRequest(me, auth, currentHeaders) ==
    [url |-> me.url, authorization |-> me.authorization,
     method |-> FetchMethod(RequestOptions(me.call))]

NoRequest == [url |-> "", authorization |-> NoAuthorization, method |-> ""]

\* a variant that forgets to clear
clearCache_keep(c) == c

\* clearCache(): this.cache.clear()
clearCache(c) == EmptyCache

\* the body of testConnection's inner try for one settled fetch
ProbeResult(outcome) ==
    IF outcome.kind = "reject" THEN Throw(FetchFailedError)
    ELSE IF ResponseOk(outcome.status)
         THEN IF outcome.body = JInvalid THEN Throw(JsonSyntaxError) ELSE Return(JBool(TRUE))
    ELSE Return(JBool(FALSE))

\* a variant whose outer catch rethrows
ProbeCatch_rethrow(r) == r

\* testConnection's outer catch: every exception becomes false
ProbeCatch(r) == IF r.kind = "throw" THEN Return(JBool(FALSE)) ELSE r

\* a variant that stores the probe's data as request() would
ProbeCache_store(c, outcome, t, ttl) ==
    IF outcome.kind = "response" /\ ResponseOk(outcome.status) /\ outcome.body # JInvalid
    THEN setInCache(c, TestConnectionPath, outcome.body, t, ttl)
    ELSE c

\* the cache after a testConnection probe has settled: testConnection has no cache code
ProbeCache(c, outcome, t, ttl) == c

(***************************************************************************)
(* State.                                                                  *)
(***************************************************************************)
VARIABLES
    ctorOptions,    \* the options the constructor was given
    authSettings,   \* this.authSettings: Null or Some(settings)
    headers,        \* this.headers['Authorization']
    cache,          \* this.cache
    testMode,       \* this.testMode
    maxRetries,     \* this.maxRetries
    cacheTtl,       \* this.cacheTtl
    now,            \* Date.now()
    proc,           \* per caller: where its call stands and what it captured
    gen,            \* history: number of initialize() calls so far
    epoch,          \* history: number of cache clears so far
    calls,          \* history: number of calls started so far
    origin,         \* history: per cache entry, the Authorization and path it was fetched with and the epoch of the write
    wiped,          \* history: keys the latest clear removed
    trigger,        \* the PipelineTrigger singleton, its buttons, timers and running handlers
    monitor,        \* the PipelineMonitor singleton, its buttons, timers and running handlers
    manager         \* the SettingsManager singleton, the settings Stream Deck stores and the running calls

vars == << ctorOptions, authSettings, headers, cache, testMode, maxRetries, cacheTtl, now, proc,
           gen, epoch, calls, origin, wiped, trigger, monitor, manager >>

\* the variables of the client and of its callers
serviceVars == << ctorOptions, authSettings, headers, cache, testMode, maxRetries, cacheTtl, now,
                  proc, gen, epoch, calls, origin, wiped >>

\* the variables of the Stream Deck actions and of the settings manager
actionVars == << trigger, monitor, manager >>

clientVars == << ctorOptions, authSettings, headers, testMode, maxRetries, cacheTtl >>

(***************************************************************************)
(* Stream Deck buttons.  Every button of one action type is served by the  *)
(* one SingletonAction object of that type; an event names its button by   *)
(* ev.action.id and carries that button's settings.                        *)
(***************************************************************************)
Buttons == {"k1", "k2"}

\* IPipelineTriggerSettings: projectId and pipelineId present or not,
\* showConfirmation and openAfterTrigger (branch is left unset)
TriggerSettings(configured, showConfirmation, openAfterTrigger) ==
    [configured |-> configured, showConfirmation |-> showConfirmation,
     openAfterTrigger |-> openAfterTrigger]

TriggerSettingsInputs ==
    {TriggerSettings(TRUE, TRUE, FALSE), TriggerSettings(TRUE, FALSE, FALSE),
     TriggerSettings(TRUE, FALSE, TRUE), TriggerSettings(FALSE, FALSE, FALSE)}

\* the titles updateButton is given
TitleNone == ""
TitleSetup == "Setup Required"
TitleDisconnected == "ADO Disconnected"
TitleReady == "Run"
TitleConfirm == "Press Again to Confirm"
TitleTriggering == "Triggering..."
TitleSuccess == "Pipeline Triggered!"
TitleError == "Error Triggering"

\* the last key press and what onKeyDown did with it
NoPress == [context |-> "", effect |-> ""]

\* PipelineTrigger after construction: isConnected = false, queuedBuild =
\* null, isTriggering = false; no handler running, no timer pending
InitTrigger ==
    [isConnected |-> FALSE,
     queuedBuild |-> Null,
     isTriggering |-> FALSE,
     settings |-> [b \in Buttons |-> TriggerSettings(TRUE, b = "k1", b = "k2")],
     title |-> [b \in Buttons |-> TitleNone],
     runs |-> << >>,                           \* the triggerPipeline calls, in order of start
     confirmTimers |-> [b \in Buttons |-> 0],  \* pending 5 s timers of onKeyDown
     showing |-> [b \in Buttons |-> 0],        \* showReadyState calls awaiting their fetch
     presses |-> 0,                            \* history: key presses so far
     events |-> 0,                             \* history: appear and settings events so far
     press |-> NoPress]                        \* history: the last key press

\* setInterval(callback, ...): the timer and the button its callback names
Timer(context) == [context |-> context, cleared |-> FALSE]

\* PipelineMonitor after construction: refreshTimerId = null, isConnected =
\* false; no button on the deck, no handler running, no timer
InitMonitor ==
    [isConnected |-> FALSE,
     refreshTimerId |-> Null,                 \* Null or Some(index into timers)
     timers |-> << >>,                        \* every timer setInterval has made
     shown |-> [b \in Buttons |-> FALSE],     \* the button is on the deck
     starting |-> [b \in Buttons |-> 0],      \* handlers awaiting their first updatePipelineStatus
     polling |-> [b \in Buttons |-> 0],       \* updatePipelineStatus calls of timer callbacks under way
     refreshing |-> [b \in Buttons |-> 0],    \* updatePipelineStatus calls of key presses under way
     polled |-> [b \in Buttons |-> FALSE],    \* history: startPolling ran for the button since it appeared
     events |-> 0]                            \* history: appear and settings events so far

(***************************************************************************)
(* The settings manager.  Texts the property inspector sends are trimmed   *)
(* by the plugin: a token is trimmed byte by byte; an organization URL is  *)
(* an atomic text here, so String.prototype.trim is the table of the texts *)
(* in scope.                                                               *)
(***************************************************************************)
UrlEmpty == OrgUrl("", FALSE, << >>)
UrlSpaces == OrgUrl("  ", FALSE, << >>)
UrlAcmePadded == OrgUrl(" https://dev.azure.com/acme ", TRUE, << "", "acme" >>)

TokEmpty == << >>
TokSpaces == << 32, 9 >>         \* " \t"
Tok1Padded == << 32, 116, 49, 10 >>   \* " t1\n"

\* the white space String.prototype.trim removes, in bytes
WhiteSpace == {9, 10, 11, 12, 13, 32}

RECURSIVE TrimStart(_)
TrimStart(bytes) ==
    IF Len(bytes) > 0 /\ bytes[1] \in WhiteSpace THEN TrimStart(Tail(bytes)) ELSE bytes

RECURSIVE TrimEnd(_)
TrimEnd(bytes) ==
    IF Len(bytes) > 0 /\ bytes[Len(bytes)] \in WhiteSpace
    THEN TrimEnd(SubSeq(bytes, 1, Len(bytes) - 1))
    ELSE bytes

\* personalAccessToken.trim()
TrimToken(bytes) == TrimEnd(TrimStart(bytes))

\* organizationUrl.trim(); `new URL` ignores outer spaces, so the parse is kept
TrimUrl(url) ==
    OrgUrl(CASE url.text = UrlSpaces.text -> ""
             [] url.text = UrlAcmePadded.text -> UrlAcme.text
             [] OTHER -> url.text,
           url.parses, url.pathSplit)

\* defaultGlobalSettings
DefaultRefreshInterval == 60
defaultGlobalSettings ==
    [auth |-> AuthSettings(UrlEmpty, TokEmpty), projects |-> << >>,
     refreshInterval |-> DefaultRefreshInterval]

\* the callers of updateAuthSettings: the connection-test command and another caller
Updates == {"command", "direct"}

IdleUpdate == [pc |-> "idle", given |-> defaultGlobalSettings.auth, saved |-> FALSE,
               initialized |-> Null]   \* history: what the call initialized the client with
IdleTest == [pc |-> "idle", authSettings |-> defaultGlobalSettings.auth, reply |-> Null,
             tested |-> Null,          \* history: what testConnection returned
             gen |-> 0,                \* history: the initialize() count once the command had initialized
             before |-> Null]          \* history: the stored settings when the command arrived
IdleFetch == [pc |-> "idle", remote |-> << >>, existingProjectIds |-> {}, next |-> 1,
              saved |-> TRUE, result |-> NoResult,
              before |-> << >>,        \* history: the project list when the call started
              disturbed |-> FALSE]     \* history: another caller wrote the project list meanwhile

\* the manager after construction, Stream Deck storing nothing yet
InitManager ==
    [globalSettings |-> defaultGlobalSettings,
     stored |-> Null,                  \* what streamDeck.settings holds
     updates |-> [u \in Updates |-> IdleUpdate],
     test |-> IdleTest,
     fetch |-> IdleFetch,
     last |-> [op |-> "", arg |-> ""], \* history: the latest manager operation and its argument
     ops |-> 0]                        \* history: manager operations so far

\* a caller that is not inside a call
IdleProc ==
    [pc |-> "idle", call |-> NoCall, url |-> "", authorization |-> NoAuthorization,
     cacheKey |-> "", attempt |-> 0, nets |-> 0, waits |-> 0, last |-> NoOutcome,
     result |-> NoResult, fromCache |-> FALSE, startEpoch |-> 0,
     dataAuthorization |-> NoAuthorization,
     sent |-> NoRequest,        \* the latest fetch(url, requestOptions) issued
     backoffMs |-> 0,           \* the latest backoffMs computed
     writes |-> 0,              \* history: setInCache calls of this call
     evicted |-> FALSE,         \* history: the lookup of this call deleted an expired entry
     startAuth |-> Null]        \* history: this.authSettings when the call started

\* constructor options: maxRetries and cacheTtl are absent (Null) or numbers
MaxRetriesOptions == {Some(n) : n \in -1 .. MaxRetriesOpt}
CacheTtlOptions == {Null, Some(2)}

\* options.x || dflt
OrDefault(opt, dflt) == IF opt = Null \/ opt = Some(0) THEN dflt ELSE opt[1]

\* the state after construction with the given options
InitWith(retriesOptions, ttlOptions) ==
    /\ authSettings = Null
    /\ headers = NoAuthorization
    /\ cache = EmptyCache
    /\ testMode = FALSE
    /\ ctorOptions \in [maxRetries : retriesOptions, cacheTtl : ttlOptions]
    /\ maxRetries = OrDefault(ctorOptions.maxRetries, DefaultMaxRetries)
    /\ cacheTtl = OrDefault(ctorOptions.cacheTtl, DefaultCacheTtl)
    /\ now = 0
    /\ proc = [p \in Procs |-> IdleProc]
    /\ gen = 0
    /\ epoch = 0
    /\ calls = 0
    /\ origin = EmptyCache
    /\ wiped = {}
    /\ trigger = InitTrigger
    /\ monitor = InitMonitor
    /\ manager = InitManager

\* the shipped singleton: getInstance() without options
Init == InitWith({Null}, {Null})

\* a client constructed with any options
InitSolo == InitWith(MaxRetriesOptions, {Null})

\* a client constructed with a retry ceiling high enough for the backoff cap
InitRetry == InitWith({Some(n) : n \in -1 .. MaxCeiling}, {Null})

(***************************************************************************)
(* Client configuration.                                                   *)
(***************************************************************************)
\* what initialize(authSettings) does to the client
ClientInitialize(a) ==
    /\ epoch < MaxClears
    /\ authSettings' = Some(a)
    /\ headers' = BasicAuthorization(a.personalAccessToken)
    /\ cache' = clearCache(cache)
    /\ origin' = [k \in DOMAIN cache' |-> origin[k]]
    /\ wiped' = DOMAIN cache
    /\ gen' = gen + 1
    /\ epoch' = epoch + 1

\* initialize(authSettings)
Initialize(a) ==
    /\ ClientInitialize(a)
    /\ UNCHANGED actionVars
    /\ UNCHANGED << ctorOptions, testMode, maxRetries, cacheTtl, now, proc, calls >>

\* clearCache() called from outside
ClearCache ==
    /\ epoch < MaxClears
    /\ cache' = clearCache(cache)
    /\ origin' = [k \in DOMAIN cache' |-> origin[k]]
    /\ wiped' = DOMAIN cache
    /\ epoch' = epoch + 1
    /\ UNCHANGED actionVars
    /\ UNCHANGED << clientVars, now, proc, gen, calls >>

\* setTestMode(enabled)
SetTestMode(enabled) ==
    /\ testMode # enabled
    /\ testMode' = enabled
    /\ UNCHANGED actionVars
    /\ UNCHANGED << ctorOptions, authSettings, headers, cache, maxRetries, cacheTtl, now, proc,
                    gen, epoch, calls, origin, wiped >>

\* time passes
Tick ==
    /\ now < MaxTime
    /\ now' = now + 1
    /\ UNCHANGED actionVars
    /\ UNCHANGED << clientVars, cache, proc, gen, epoch, calls, origin, wiped >>


(***************************************************************************)
(* request() and the wrappers around it.                                   *)
(***************************************************************************)
\* ensureInitialized() and `new URL(organizationUrl)` inside buildUrl()
CanBuildUrl == authSettings # Null /\ authSettings[1].organizationUrl.parses

\* a variant that reports the uninitialized client as an ApiError
PreludeError_asApiError ==
    IF authSettings = Null THEN ApiError(ApiErrorType.Unknown, 0, FALSE) ELSE InvalidUrlError

PreludeError == IF authSettings = Null THEN NotInitializedError ELSE InvalidUrlError

\* a call settles: the wrapper's outcome is what the caller gets
Settled(me, outcome, r) ==
    [me EXCEPT !.pc = "done", !.last = outcome, !.result = Wrapper(me.call.op, r)]

\* A caller invokes a wrapper: request() runs up to its first `await fetch`
RequestEnter(p, call) ==
    /\ calls' = calls + 1
    /\ LET options == RequestOptions(call)
           key == getCacheKey(Path(call), options)
           eligible == CacheEligible(options)
           cachedData == IF eligible THEN getFromCache(cache, key, now) ELSE JNull
           me == [IdleProc EXCEPT !.call = call, !.startEpoch = epoch, !.authorization = headers,
                                  !.startAuth = authSettings]
           fetching == [me EXCEPT !.pc = "fetching",
                                  !.url = buildUrl(authSettings[1], Path(call)),
                                  !.cacheKey = key,
                                  !.nets = 1,
                                  !.evicted = eligible /\ CacheAfterGet(cache, key, now) # cache]
       IN  IF ~CanBuildUrl
           THEN /\ proc' = [proc EXCEPT ![p] = Settled(me, NoOutcome, Throw(PreludeError))]
                /\ UNCHANGED << cache, origin >>
           ELSE /\ cache' = IF eligible THEN CacheAfterGet(cache, key, now) ELSE cache
                /\ origin' = [k \in DOMAIN cache' |-> origin[k]]
                /\ proc' = [proc EXCEPT ![p] =
                       IF eligible /\ Truthy(cachedData)
                       THEN Settled([me EXCEPT !.fromCache = TRUE,
                                               !.dataAuthorization = origin[key].authorization],
                                    NoOutcome, Return(cachedData))
                       ELSE [fetching EXCEPT
                                !.sent = AttemptRequest(fetching, authSettings, headers)]]
    /\ UNCHANGED << clientVars, now, gen, epoch, wiped >>

\* A caller invokes a wrapper
RequestStart(p, call) ==
    /\ proc[p].pc = "idle"
    /\ calls < MaxCalls
    /\ RequestEnter(p, call)
    /\ UNCHANGED actionVars

\* The fetch of a request settles: success path or the catch block
FetchSettle(p, outcome, random) ==
    /\ proc[p].pc = "fetching"
    /\ LET me == proc[p]
           r == AttemptResult(outcome)
           eligible == CacheEligible(RequestOptions(me.call))
           attempt == me.attempt + 1
           failed == [me EXCEPT !.attempt = attempt, !.last = outcome]
           next == RetryStep(failed, testMode, Backoff(attempt, random))
       IN  IF r.kind = "return"
           THEN /\ cache' = IF eligible
                            THEN setInCache(cache, me.cacheKey, r.value, now, cacheTtl)
                            ELSE cache
                /\ origin' = IF eligible
                             THEN CacheSet(origin, me.cacheKey,
                                           [authorization |-> me.authorization, epoch |-> epoch,
                                            path |-> Path(me.call)])
                             ELSE origin
                /\ proc' = [proc EXCEPT ![p] =
                       Settled([me EXCEPT !.dataAuthorization = me.authorization,
                                          !.writes = IF eligible THEN me.writes + 1
                                                     ELSE me.writes],
                               outcome, r)]
           ELSE /\ proc' = [proc EXCEPT ![p] =
                       IF GiveUp(attempt, maxRetries, r.error)
                       THEN Settled(failed, outcome, r)
                       ELSE IF next.pc = "fetching"
                            THEN [next EXCEPT !.sent = AttemptRequest(next, authSettings, headers)]
                            ELSE next]
                /\ UNCHANGED << cache, origin >>
    /\ UNCHANGED actionVars
    /\ UNCHANGED << clientVars, now, gen, epoch, calls, wiped >>

\* a variant whose timer never resolves the promise
BackoffElapsed_stuck(p) ==
    /\ proc[p].pc = "backoff"
    /\ UNCHANGED vars

\* The backoff timer fires: the loop issues the next fetch
BackoffElapsed(p) ==
    /\ proc[p].pc = "backoff"
    /\ proc' = [proc EXCEPT ![p] =
           [proc[p] EXCEPT !.pc = "fetching", !.nets = proc[p].nets + 1,
                           !.sent = AttemptRequest(proc[p], authSettings, headers)]]
    /\ UNCHANGED actionVars
    /\ UNCHANGED << clientVars, cache, now, gen, epoch, calls, origin, wiped >>

(***************************************************************************)
(* getOrganizationName()                                                   *)
(***************************************************************************)
OrganizationNameCall == Call("getOrganizationName", "", "", 0, 0, 0)

\* getOrganizationName() called from outside: synchronous
GetOrganizationName(p) ==
    /\ proc[p].pc = "idle"
    /\ calls < MaxCalls
    /\ calls' = calls + 1
    /\ LET me == [IdleProc EXCEPT !.call = OrganizationNameCall, !.startEpoch = epoch,
                                  !.authorization = headers, !.startAuth = authSettings]
       IN  proc' = [proc EXCEPT ![p] =
               [me EXCEPT !.pc = "done",
                          !.result = IF ~CanBuildUrl THEN Throw(PreludeError)
                                     ELSE Return(JString(OrganizationName(
                                              authSettings[1].organizationUrl)))]]
    /\ UNCHANGED actionVars
    /\ UNCHANGED << clientVars, cache, now, gen, epoch, origin, wiped >>

(***************************************************************************)
(* getPullRequestListUrl(options)                                          *)
(***************************************************************************)
\* the options object; "" is an absent (or empty) repositoryId / repositoryName
ListUrlOptions(projectId, repositoryId, organizationUrl, repositoryName) ==
    [projectId |-> projectId, repositoryId |-> repositoryId,
     organizationUrl |-> organizationUrl, repositoryName |-> repositoryName]

PullRequestListOptions ==
    {ListUrlOptions("proj", id, "https://dev.azure.com/acme", name) :
        id \in {"", "all", "r1"}, name \in {"", "repo"}}

\* a variant that always builds the project-wide URL
PullRequestListUrl_projectOnly(options) ==
    options.organizationUrl \o "/" \o options.projectId \o "/_pulls?state=active"

\* the string getPullRequestListUrl builds
PullRequestListUrl(options) ==
    IF options.repositoryId # "" /\ options.repositoryId # "all" /\ options.repositoryName # ""
    THEN options.organizationUrl \o "/" \o options.projectId \o "/_git/"
             \o options.repositoryName \o "/pullrequests?state=active"
    ELSE options.organizationUrl \o "/" \o options.projectId \o "/_pulls?state=active"

\* the call record of getPullRequestListUrl keeps the whole options object
ListUrlCall(options) ==
    [op |-> "getPullRequestListUrl", project |-> options.projectId,
     repository |-> options.repositoryId, pipelineId |-> 0, top |-> 0, skip |-> 0,
     repositoryName |-> options.repositoryName, organizationUrl |-> options.organizationUrl]

\* getPullRequestListUrl(options) called from outside: synchronous, no check
GetPullRequestListUrl(p, options) ==
    /\ proc[p].pc = "idle"
    /\ calls < MaxCalls
    /\ calls' = calls + 1
    /\ proc' = [proc EXCEPT ![p] =
           [IdleProc EXCEPT !.call = ListUrlCall(options), !.startEpoch = epoch,
                            !.startAuth = authSettings, !.pc = "done",
                            !.result = Return(JString(PullRequestListUrl(options)))]]
    /\ UNCHANGED actionVars
    /\ UNCHANGED << clientVars, cache, now, gen, epoch, origin, wiped >>

(***************************************************************************)
(* testConnection()                                                        *)
(***************************************************************************)
TestConnectionCall == Call("testConnection", "", "", 0, 0, 0)

\* the caller of testConnection() once it has run up to its `await fetch`
ProbeEntered ==
    LET me == [IdleProc EXCEPT !.call = TestConnectionCall, !.startEpoch = epoch,
                               !.authorization = headers, !.startAuth = authSettings]
        testUrl == buildUrl(authSettings[1], TestConnectionPath)
    IN  IF ~CanBuildUrl
        THEN [me EXCEPT !.pc = "done", !.result = ProbeCatch(Throw(PreludeError))]
        ELSE [me EXCEPT !.pc = "probing",
                        !.url = testUrl,
                        !.nets = 1,
                        !.sent = [url |-> testUrl, authorization |-> headers,
                                  method |-> "GET"]]

\* testConnection() up to its `await fetch`
TestConnectionStart(p) ==
    /\ proc[p].pc = "idle"
    /\ calls < MaxCalls
    /\ calls' = calls + 1
    /\ proc' = [proc EXCEPT ![p] = ProbeEntered]
    /\ UNCHANGED actionVars
    /\ UNCHANGED << clientVars, cache, now, gen, epoch, origin, wiped >>

\* the probe settles
TestConnectionSettle(p, outcome) ==
    /\ proc[p].pc = "probing"
    /\ proc' = [proc EXCEPT ![p] =
           [proc[p] EXCEPT !.pc = "done", !.last = outcome,
                           !.result = ProbeCatch(ProbeResult(outcome))]]
    /\ cache' = ProbeCache(cache, outcome, now, cacheTtl)
    /\ origin' = [k \in DOMAIN cache' |-> IF k \in DOMAIN origin THEN origin[k]
                                          ELSE [authorization |-> proc[p].authorization,
                                                epoch |-> epoch, path |-> TestConnectionPath]]
    /\ UNCHANGED actionVars
    /\ UNCHANGED << clientVars, now, gen, epoch, calls, wiped >>

\* the caller has consumed the outcome and may call again
Finish(p) ==
    /\ proc[p].pc = "done"
    /\ proc' = [proc EXCEPT ![p] = IdleProc]
    /\ UNCHANGED actionVars
    /\ UNCHANGED << clientVars, cache, now, gen, epoch, calls, origin, wiped >>

\* Several callers share the shipped client: caching under concurrency,
\* credential rotation and the passing of time
Next ==
    \/ \E a \in SharedAuthInputs : Initialize(a)
    \/ ClearCache
    \/ Tick
    \/ \E p \in Procs, call \in SharedCalls : RequestStart(p, call)
    \/ \E p \in Procs, outcome \in SharedOutcomes : FetchSettle(p, outcome, MidRandom)
    \/ \E p \in Procs : BackoffElapsed(p)
    \/ \E p \in Procs : Finish(p)

Spec == Init /\ [][Next]_vars

\* One caller, every request-backed operation, every failure status, every
\* retry ceiling, test mode on and off
Solo == "c1"

NextSolo ==
    \/ \E a \in SoloAuthInputs : Initialize(a)
    \/ \E enabled \in BOOLEAN : SetTestMode(enabled)
    \/ \E call \in Calls : RequestStart(Solo, call)
    \/ \E outcome \in SoloOutcomes : FetchSettle(Solo, outcome, MidRandom)
    \/ BackoffElapsed(Solo)
    \/ Finish(Solo)

SpecSolo == InitSolo /\ [][NextSolo]_vars

\* One caller of the shipped client probing the connection, between requests
\* for the project list the probe also asks for
ProbedCalls == {c \in Calls : Path(c) = TestConnectionPath}

NextProbe ==
    \/ \E a \in AuthInputs : Initialize(a)
    \/ ClearCache
    \/ Tick
    \/ \E call \in ProbedCalls : RequestStart(Solo, call)
    \/ \E outcome \in FetchOutcomes : FetchSettle(Solo, outcome, MidRandom)
    \/ BackoffElapsed(Solo)
    \/ TestConnectionStart(Solo)
    \/ \E outcome \in FetchOutcomes : TestConnectionSettle(Solo, outcome)
    \/ Finish(Solo)

SpecProbe == Init /\ [][NextProbe]_vars

\* One caller of the shipped client using every resource operation, before
\* and after initialize
OpsCalls == Calls \cup {LatestRunUrlCall}
OpsOutcomes == {Response(200, JArray(<< "b1" >>)), Response(200, JArray(<< "b1", "b2" >>)),
                Response(200, JArray(<< >>)), Response(200, JNull),
                Response(404, ErrorBody), Response(503, ErrorBody)}

NextOps ==
    \/ \E a \in SoloAuthInputs : Initialize(a)
    \/ \E call \in OpsCalls : RequestStart(Solo, call)
    \/ \E outcome \in OpsOutcomes : FetchSettle(Solo, outcome, MidRandom)
    \/ BackoffElapsed(Solo)
    \/ GetOrganizationName(Solo)
    \/ \E options \in PullRequestListOptions : GetPullRequestListUrl(Solo, options)
    \/ TestConnectionStart(Solo)
    \/ \E outcome \in OpsOutcomes : TestConnectionSettle(Solo, outcome)
    \/ Finish(Solo)

SpecOps == Init /\ [][NextOps]_vars

\* One caller retrying one request under every retry ceiling and jitter draw;
\* every fetch settles and every backoff timer fires
RetryCall == Call("getPipelineDefinitions", "proj", "", 0, 0, 0)
RetryOutcomes == {Response(200, JArray(<< "b1" >>)), Response(429, ErrorBody),
                  Response(404, ErrorBody), NetworkFailure}

NextRetry ==
    \/ Initialize(AuthSettings(UrlAcme, Tok1))
    \/ \E enabled \in BOOLEAN : SetTestMode(enabled)
    \/ RequestStart(Solo, RetryCall)
    \/ \E outcome \in RetryOutcomes, random \in Randoms : FetchSettle(Solo, outcome, random)
    \/ BackoffElapsed(Solo)
    \/ Finish(Solo)

SpecRetry ==
    /\ InitRetry
    /\ [][NextRetry]_vars
    /\ WF_vars(\E outcome \in RetryOutcomes, random \in Randoms :
                   FetchSettle(Solo, outcome, random))
    /\ WF_vars(BackoffElapsed(Solo))

\* Every HTTP status through one getPipelineDefinitions request
MinStatus == 100
MaxStatus == 599
AllStatuses == MinStatus .. MaxStatus
ClassifyCall == Call("getPipelineDefinitions", "proj", "", 0, 0, 0)
ClassifyBody(status) == IF ResponseOk(status) THEN JArray(<< >>) ELSE ErrorBody

NextClassify ==
    \/ Initialize(AuthSettings(UrlAcme, Tok1))
    \/ RequestStart(Solo, ClassifyCall)
    \/ \E status \in AllStatuses :
            FetchSettle(Solo, Response(status, ClassifyBody(status)), MidRandom)
    \/ BackoffElapsed(Solo)
    \/ Finish(Solo)

SpecClassify == Init /\ [][NextClassify]_vars

(***************************************************************************)
(* PipelineTrigger.  A handler runs until its next await; what stands      *)
(* between two awaits is one step.  updateButton hands the title to        *)
(* action.setTitle before its first await, so a show...State call sets the *)
(* title in the step that calls it; showReadyState first awaits            *)
(* getPipelineDefinitions and sets the title in a later step.  The client  *)
(* is seen from outside: queuePipelineRun resolves with a build or rejects.*)
(***************************************************************************)
MaxPresses == 2
MaxTriggerEvents == 1

Build == Some("b1")

\* one call of triggerPipeline(context, settings): where it stands and, as
\* history, how its try block went
Run(context, settings, pc) ==
    [context |-> context, openAfterTrigger |-> settings.openAfterTrigger, pc |-> pc,
     outcome |-> ""]

\* the triggerPipeline calls with a queuePipelineRun call outstanding
Outstanding == {i \in DOMAIN trigger.runs : trigger.runs[i].pc = "queueing"}

\* the triggerPipeline calls whose reset timer has not fired yet
Active == {i \in DOMAIN trigger.runs : trigger.runs[i].pc # "done"}

\* showReadyState(context, settings) is called: it awaits the pipeline list
ShowReadyState(t, b) == [t EXCEPT !.showing[b] = t.showing[b] + 1]

\* onWillAppear(ev)
TriggerOnWillAppear(b, valid) ==
    /\ trigger.events < MaxTriggerEvents
    /\ LET t == [trigger EXCEPT !.events = trigger.events + 1]
       IN  trigger' =
               IF ~t.settings[b].configured
               THEN [t EXCEPT !.title[b] = TitleSetup]
               ELSE IF ~valid
                    THEN [t EXCEPT !.isConnected = FALSE, !.title[b] = TitleDisconnected]
                    ELSE ShowReadyState([t EXCEPT !.isConnected = TRUE], b)
    /\ UNCHANGED << serviceVars, monitor, manager >>

\* onDidReceiveSettings(ev)
TriggerOnDidReceiveSettings(b, valid, settings) ==
    /\ trigger.events < MaxTriggerEvents
    /\ LET t == [trigger EXCEPT !.events = trigger.events + 1, !.settings[b] = settings,
                                !.isConnected = valid]
       IN  trigger' =
               IF ~valid
               THEN [t EXCEPT !.title[b] = TitleDisconnected]
               ELSE IF ~settings.configured
                    THEN [t EXCEPT !.title[b] = TitleSetup]
                    ELSE ShowReadyState(t, b)
    /\ UNCHANGED << serviceVars, monitor, manager >>

\* showReadyState after its fetch: the title is set, whatever the fetch gave
ShowReadyDone(b) ==
    /\ trigger.showing[b] > 0
    /\ trigger' = [trigger EXCEPT !.showing[b] = trigger.showing[b] - 1,
                                  !.title[b] = TitleReady]
    /\ UNCHANGED << serviceVars, monitor, manager >>

\* a variant without the check of the settings and of the connection
OnKeyDown_noUsableCheck(b) ==
    /\ trigger.presses < MaxPresses
    /\ LET s == trigger.settings[b]
           t == [trigger EXCEPT !.presses = trigger.presses + 1]
       IN  trigger' =
               IF trigger.isTriggering
               THEN [t EXCEPT !.press = [context |-> b, effect |-> "ignored"]]
               ELSE IF s.showConfirmation /\ trigger.queuedBuild = Null
                    THEN [t EXCEPT !.title[b] = TitleConfirm,
                                   !.confirmTimers[b] = trigger.confirmTimers[b] + 1,
                                   !.press = [context |-> b, effect |-> "confirm"]]
                    ELSE [t EXCEPT !.isTriggering = TRUE,
                                   !.title[b] = TitleTriggering,
                                   !.runs = Append(trigger.runs, Run(b, s, "showTriggering")),
                                   !.press = [context |-> b, effect |-> "trigger"]]
    /\ UNCHANGED << serviceVars, monitor, manager >>

\* a variant without the isTriggering check
OnKeyDown_noGuard(b) ==
    /\ trigger.presses < MaxPresses
    /\ LET s == trigger.settings[b]
           t == [trigger EXCEPT !.presses = trigger.presses + 1]
       IN  trigger' =
               IF ~s.configured \/ ~trigger.isConnected
               THEN [t EXCEPT !.press = [context |-> b, effect |-> "notReady"]]
               ELSE IF s.showConfirmation /\ trigger.queuedBuild = Null
                    THEN [t EXCEPT !.title[b] = TitleConfirm,
                                   !.confirmTimers[b] = trigger.confirmTimers[b] + 1,
                                   !.press = [context |-> b, effect |-> "confirm"]]
                    ELSE [t EXCEPT !.isTriggering = TRUE,
                                   !.title[b] = TitleTriggering,
                                   !.runs = Append(trigger.runs, Run(b, s, "showTriggering")),
                                   !.press = [context |-> b, effect |-> "trigger"]]
    /\ UNCHANGED << serviceVars, monitor, manager >>

\* onKeyDown(ev), up to its first await: either it returns at once, or it
\* asks for confirmation (showConfirmState, then the 5 s timer), or it enters
\* triggerPipeline, which sets isTriggering and shows "Triggering..."
OnKeyDown(b) ==
    /\ trigger.presses < MaxPresses
    /\ LET s == trigger.settings[b]
           t == [trigger EXCEPT !.presses = trigger.presses + 1]
       IN  trigger' =
               IF ~s.configured \/ ~trigger.isConnected
               THEN [t EXCEPT !.press = [context |-> b, effect |-> "notReady"]]
               ELSE IF trigger.isTriggering
                    THEN [t EXCEPT !.press = [context |-> b, effect |-> "ignored"]]
                    ELSE IF s.showConfirmation /\ trigger.queuedBuild = Null
                         THEN [t EXCEPT !.title[b] = TitleConfirm,
                                        !.confirmTimers[b] = trigger.confirmTimers[b] + 1,
                                        !.press = [context |-> b, effect |-> "confirm"]]
                         ELSE [t EXCEPT !.isTriggering = TRUE,
                                        !.title[b] = TitleTriggering,
                                        !.runs = Append(trigger.runs, Run(b, s, "showTriggering")),
                                        !.press = [context |-> b, effect |-> "trigger"]]
    /\ UNCHANGED << serviceVars, monitor, manager >>

\* the 5 s timer of onKeyDown fires
ConfirmTimerFires(b) ==
    /\ trigger.confirmTimers[b] > 0
    /\ LET t == [trigger EXCEPT !.confirmTimers[b] = trigger.confirmTimers[b] - 1]
       IN  trigger' = IF trigger.queuedBuild = Null /\ ~trigger.isTriggering
                      THEN ShowReadyState(t, b)
                      ELSE t
    /\ UNCHANGED << serviceVars, monitor, manager >>

\* triggerPipeline after showTriggeringState: queuePipelineRun is called
QueueStart(i) ==
    /\ i \in DOMAIN trigger.runs
    /\ trigger.runs[i].pc = "showTriggering"
    /\ trigger' = [trigger EXCEPT !.runs[i].pc = "queueing"]
    /\ UNCHANGED << serviceVars, monitor, manager >>

\* queuePipelineRun settles: the build is saved and "Pipeline Triggered!"
\* shown (and, with openAfterTrigger, openUrl comes next), or the catch
\* block shows "Error Triggering"
QueueSettle(i, ok) ==
    /\ i \in DOMAIN trigger.runs
    /\ trigger.runs[i].pc = "queueing"
    /\ LET b == trigger.runs[i].context
       IN  trigger' =
               IF ok
               THEN [trigger EXCEPT !.runs[i].pc = IF trigger.runs[i].openAfterTrigger
                                                   THEN "opening" ELSE "showResult",
                                    !.runs[i].outcome = "queued",
                                    !.queuedBuild = Build,
                                    !.title[b] = TitleSuccess]
               ELSE [trigger EXCEPT !.runs[i].pc = "showResult",
                                    !.runs[i].outcome = "rejected",
                                    !.title[b] = TitleError]
    /\ UNCHANGED << serviceVars, monitor, manager >>

\* a variant whose catch block sets no timer after a failed openUrl
OpenSettle_noReset(i, ok) ==
    /\ i \in DOMAIN trigger.runs
    /\ trigger.runs[i].pc = "opening"
    /\ trigger' =
           IF ok
           THEN [trigger EXCEPT !.runs[i].pc = "showResult"]
           ELSE [trigger EXCEPT !.runs[i].pc = "done", !.runs[i].outcome = "openFailed",
                                !.title[trigger.runs[i].context] = TitleError]
    /\ UNCHANGED << serviceVars, monitor, manager >>

\* openUrl(build.url) settles: the command ran, or it failed and the catch
\* block shows "Error Triggering"
OpenSettle(i, ok) ==
    /\ i \in DOMAIN trigger.runs
    /\ trigger.runs[i].pc = "opening"
    /\ trigger' =
           IF ok
           THEN [trigger EXCEPT !.runs[i].pc = "showResult"]
           ELSE [trigger EXCEPT !.runs[i].pc = "showResult", !.runs[i].outcome = "openFailed",
                                !.title[trigger.runs[i].context] = TitleError]
    /\ UNCHANGED << serviceVars, monitor, manager >>

\* triggerPipeline after showSuccessState or showErrorState: the 3 s timer
\* is set
ResetTimerSet(i) ==
    /\ i \in DOMAIN trigger.runs
    /\ trigger.runs[i].pc = "showResult"
    /\ trigger' = [trigger EXCEPT !.runs[i].pc = "timer"]
    /\ UNCHANGED << serviceVars, monitor, manager >>

\* the 3 s timer fires: queuedBuild = null, isTriggering = false,
\* showReadyState
ResetTimerFires(i) ==
    /\ i \in DOMAIN trigger.runs
    /\ trigger.runs[i].pc = "timer"
    /\ trigger' = ShowReadyState([trigger EXCEPT !.runs[i].pc = "done", !.queuedBuild = Null,
                                                 !.isTriggering = FALSE],
                                 trigger.runs[i].context)
    /\ UNCHANGED << serviceVars, monitor, manager >>

\* Two trigger buttons, one with confirmation and one without, under key
\* presses, appear and settings events and both outcomes of the queue call
NextTrigger ==
    \/ \E b \in Buttons, valid \in BOOLEAN : TriggerOnWillAppear(b, valid)
    \/ \E b \in Buttons, valid \in BOOLEAN, settings \in TriggerSettingsInputs :
            TriggerOnDidReceiveSettings(b, valid, settings)
    \/ \E b \in Buttons : ShowReadyDone(b)
    \/ \E b \in Buttons : OnKeyDown(b)
    \/ \E b \in Buttons : ConfirmTimerFires(b)
    \/ \E i \in 1 .. MaxPresses : QueueStart(i)
    \/ \E i \in 1 .. MaxPresses, ok \in BOOLEAN : QueueSettle(i, ok)
    \/ \E i \in 1 .. MaxPresses, ok \in BOOLEAN : OpenSettle(i, ok)
    \/ \E i \in 1 .. MaxPresses : ResetTimerSet(i)
    \/ \E i \in 1 .. MaxPresses : ResetTimerFires(i)

SpecTrigger == Init /\ [][NextTrigger]_vars

\* The button without confirmation and with openAfterTrigger, alone, where
\* every awaited promise settles and every timer fires
LiveButton == "k2"

NextTriggerLive ==
    \/ \E valid \in BOOLEAN : TriggerOnWillAppear(LiveButton, valid)
    \/ ShowReadyDone(LiveButton)
    \/ OnKeyDown(LiveButton)
    \/ \E i \in 1 .. MaxPresses : QueueStart(i)
    \/ \E i \in 1 .. MaxPresses, ok \in BOOLEAN : QueueSettle(i, ok)
    \/ \E i \in 1 .. MaxPresses, ok \in BOOLEAN : OpenSettle(i, ok)
    \/ \E i \in 1 .. MaxPresses : ResetTimerSet(i)
    \/ \E i \in 1 .. MaxPresses : ResetTimerFires(i)

SpecTriggerLive ==
    /\ Init
    /\ [][NextTriggerLive]_vars
    /\ WF_vars(\E i \in 1 .. MaxPresses : QueueStart(i))
    /\ WF_vars(\E i \in 1 .. MaxPresses, ok \in BOOLEAN : QueueSettle(i, ok))
    /\ WF_vars(\E i \in 1 .. MaxPresses, ok \in BOOLEAN : OpenSettle(i, ok))
    /\ WF_vars(\E i \in 1 .. MaxPresses : ResetTimerSet(i))
    /\ WF_vars(\E i \in 1 .. MaxPresses : ResetTimerFires(i))

(***************************************************************************)
(* PipelineMonitor.  updatePipelineStatus awaits getPipelineStatus and     *)
(* then draws the button; it catches every error, so the handler that      *)
(* awaits it always goes on to startPolling.                               *)
(***************************************************************************)
MaxMonitorEvents == 4
MaxUpdates == 1

\* the timers that setInterval made and clearInterval has not cleared
LiveTimers == {t \in DOMAIN monitor.timers : ~monitor.timers[t].cleared}

\* stopPolling()
stopPolling(m) ==
    IF m.refreshTimerId # Null
    THEN [m EXCEPT !.timers[m.refreshTimerId[1]].cleared = TRUE, !.refreshTimerId = Null]
    ELSE m

\* a variant that does not clear the existing timer
startPolling_noStop(m, context) ==
    [m EXCEPT !.timers = Append(m.timers, Timer(context)),
              !.refreshTimerId = Some(Len(m.timers) + 1)]

\* startPolling(context, settings)
startPolling(m, context) ==
    LET stopped == stopPolling(m)
    IN  [stopped EXCEPT !.timers = Append(stopped.timers, Timer(context)),
                        !.refreshTimerId = Some(Len(stopped.timers) + 1)]

\* onWillAppear(ev), up to the await of updatePipelineStatus
MonitorOnWillAppear(b, configured, valid) ==
    /\ ~monitor.shown[b]
    /\ monitor.events < MaxMonitorEvents
    /\ LET m == [monitor EXCEPT !.events = monitor.events + 1, !.shown[b] = TRUE,
                                !.polled[b] = FALSE]
       IN  monitor' =
               IF ~configured
               THEN m
               ELSE IF ~valid
                    THEN [m EXCEPT !.isConnected = FALSE]
                    ELSE [m EXCEPT !.isConnected = TRUE, !.starting[b] = m.starting[b] + 1]
    /\ UNCHANGED << serviceVars, trigger, manager >>

\* onDidReceiveSettings(ev), up to the await of updatePipelineStatus
MonitorOnDidReceiveSettings(b, configured, valid) ==
    /\ monitor.shown[b]
    /\ monitor.events < MaxMonitorEvents
    /\ LET m == [monitor EXCEPT !.events = monitor.events + 1, !.isConnected = valid]
       IN  monitor' =
               IF valid /\ configured
               THEN [m EXCEPT !.starting[b] = m.starting[b] + 1]
               ELSE m
    /\ UNCHANGED << serviceVars, trigger, manager >>

\* onWillAppear / onDidReceiveSettings after their await: startPolling
InitialUpdateDone(b) ==
    /\ monitor.starting[b] > 0
    /\ monitor' = startPolling([monitor EXCEPT !.starting[b] = monitor.starting[b] - 1,
                                               !.polled[b] = monitor.shown[b]], b)
    /\ UNCHANGED << serviceVars, trigger, manager >>

\* onWillDisappear(_ev): stopPolling(), whichever button the event names
MonitorOnWillDisappear(b) ==
    /\ monitor.shown[b]
    /\ monitor' = stopPolling([monitor EXCEPT !.shown[b] = FALSE, !.polled[b] = FALSE])
    /\ UNCHANGED << serviceVars, trigger, manager >>

\* the callback of a live timer runs: updatePipelineStatus for its button
TimerTick(t) ==
    /\ t \in LiveTimers
    /\ LET b == monitor.timers[t].context
       IN  /\ monitor.polling[b] < MaxUpdates
           /\ monitor' = [monitor EXCEPT !.polling[b] = monitor.polling[b] + 1]
    /\ UNCHANGED << serviceVars, trigger, manager >>

\* the updatePipelineStatus call of a timer callback ends
PollDone(b) ==
    /\ monitor.polling[b] > 0
    /\ monitor' = [monitor EXCEPT !.polling[b] = monitor.polling[b] - 1]
    /\ UNCHANGED << serviceVars, trigger, manager >>

\* onKeyDown(ev): a manual refresh when configured and connected
MonitorOnKeyDown(b, configured) ==
    /\ monitor.shown[b]
    /\ configured
    /\ monitor.isConnected
    /\ monitor.refreshing[b] < MaxUpdates
    /\ monitor' = [monitor EXCEPT !.refreshing[b] = monitor.refreshing[b] + 1]
    /\ UNCHANGED << serviceVars, trigger, manager >>

\* the updatePipelineStatus call of a key press ends
RefreshDone(b) ==
    /\ monitor.refreshing[b] > 0
    /\ monitor' = [monitor EXCEPT !.refreshing[b] = monitor.refreshing[b] - 1]
    /\ UNCHANGED << serviceVars, trigger, manager >>

\* Two monitor buttons appearing, receiving settings and disappearing in any
\* order, with handlers and timer callbacks interleaved
NextMonitor ==
    \/ \E b \in Buttons, configured, valid \in BOOLEAN : MonitorOnWillAppear(b, configured, valid)
    \/ \E b \in Buttons, configured, valid \in BOOLEAN :
            MonitorOnDidReceiveSettings(b, configured, valid)
    \/ \E b \in Buttons : InitialUpdateDone(b)
    \/ \E b \in Buttons : MonitorOnWillDisappear(b)
    \/ \E t \in 1 .. MaxMonitorEvents : TimerTick(t)
    \/ \E b \in Buttons : PollDone(b)
    \/ \E b \in Buttons, configured \in BOOLEAN : MonitorOnKeyDown(b, configured)
    \/ \E b \in Buttons : RefreshDone(b)

SpecMonitor == Init /\ [][NextMonitor]_vars

(***************************************************************************)
(* SettingsManager: the global settings in memory, what Stream Deck stores *)
(* of them, and the calls in flight.  A call runs from one `await` to the  *)
(* next in one step; setGlobalSettings takes the settings when it is       *)
(* called and reports success or failure when the await resumes.           *)
(***************************************************************************)
MaxManagerOps == 3   \* manager operations started in one behaviour
MinRefreshInterval == 10

\* the caller slot of the client that the manager's own calls use
Fetcher == "c1"

\* hasValidAuthSettings()
hasValidAuthSettings(settings) ==
    LET auth == settings.auth
    IN  /\ auth.organizationUrl.text # ""
        /\ TrimUrl(auth.organizationUrl).text # ""
        /\ auth.personalAccessToken # << >>
        /\ TrimToken(auth.personalAccessToken) # << >>

\* saveGlobalSettings(): Stream Deck stores the settings unless the write fails
saveGlobalSettings(m, ok) == IF ok THEN [m EXCEPT !.stored = Some(m.globalSettings)] ELSE m

\* a variant that stores the number it is given
ClampRefreshInterval_none(seconds) == seconds

\* if (seconds < 10) seconds = 10
ClampRefreshInterval(seconds) == IF seconds < MinRefreshInterval THEN MinRefreshInterval ELSE seconds

RefreshInputs == {-1, 0, 9, 10, 11, 60}

\* an operation of some caller starts
Started(m, op, arg) == [m EXCEPT !.ops = m.ops + 1, !.last = [op |-> op, arg |-> arg]]

\* a fetchAndAddProjects in flight has seen another caller write the project list
Disturbed(m) == [m EXCEPT !.fetch.disturbed = @ \/ m.fetch.pc # "idle"]

\* updateRefreshInterval(seconds)
UpdateRefreshInterval(seconds, ok) ==
    /\ manager.ops < MaxManagerOps
    /\ manager' = saveGlobalSettings(
           [Started(manager, "updateRefreshInterval", seconds) EXCEPT
               !.globalSettings.refreshInterval = ClampRefreshInterval(seconds)], ok)
    /\ UNCHANGED << serviceVars, trigger, monitor >>

(***************************************************************************)
(* Projects.                                                               *)
(***************************************************************************)
Project(id, name, favorite, pipelineIds) ==
    [id |-> id, name |-> name, favorite |-> favorite, monitorPipelines |-> TRUE,
     monitorPullRequests |-> TRUE, pipelineIds |-> pipelineIds, repositoryIds |-> << >>]

\* createDefaultProjectSettings(id, name)
createDefaultProjectSettings(id, name) == Project(id, name, FALSE, << >>)

\* the projects other callers add or update, and the ids they remove or toggle
ProjectInputs == {Project("p1", "A", TRUE, << 7 >>), Project("p1", "A1", FALSE, << >>),
                  Project("p3", "C-mine", TRUE, << 7 >>)}
ProjectIdInputs == {"p1", "p3"}

\* projects.findIndex(p => p.id === id), counted from 1; 0 when there is none
RECURSIVE FindIndexFrom(_, _, _)
FindIndexFrom(projects, id, i) ==
    IF i > Len(projects) THEN 0
    ELSE IF projects[i].id = id THEN i
    ELSE FindIndexFrom(projects, id, i + 1)

findIndex(projects, id) == FindIndexFrom(projects, id, 1)

\* a variant that always appends
addOrUpdateProject_push(projects, project) == Append(projects, project)

\* addOrUpdateProject(project) up to its save
addOrUpdateProject(projects, project) ==
    LET existingIndex == findIndex(projects, project.id)
    IN  IF existingIndex > 0
        THEN [projects EXCEPT ![existingIndex] = project]
        ELSE Append(projects, project)

\* removeProject(projectId) up to its save
removeProject(projects, projectId) == SelectSeq(projects, LAMBDA p : p.id # projectId)

\* toggleProjectFavorite(projectId) up to its save: the stored object is changed
\* in place and then written over itself
toggleProjectFavorite(projects, projectId) ==
    LET index == findIndex(projects, projectId)
        flipped == [projects EXCEPT ![index].favorite = ~projects[index].favorite]
    IN  IF index = 0 THEN projects ELSE addOrUpdateProject(flipped, flipped[index])

AddOrUpdateProject(project, ok) ==
    /\ manager.ops < MaxManagerOps
    /\ manager' = saveGlobalSettings(
           [Started(Disturbed(manager), "addOrUpdateProject", project) EXCEPT
               !.globalSettings.projects = addOrUpdateProject(@, project)], ok)
    /\ UNCHANGED << serviceVars, trigger, monitor >>

RemoveProject(projectId, ok) ==
    /\ manager.ops < MaxManagerOps
    /\ manager' = saveGlobalSettings(
           [Started(Disturbed(manager), "removeProject", projectId) EXCEPT
               !.globalSettings.projects = removeProject(@, projectId)], ok)
    /\ UNCHANGED << serviceVars, trigger, monitor >>

\* nothing is saved when the project is not there
ToggleProjectFavorite(projectId, ok) ==
    /\ manager.ops < MaxManagerOps
    /\ LET toggled == [Started(Disturbed(manager), "toggleProjectFavorite", projectId) EXCEPT
                          !.globalSettings.projects = toggleProjectFavorite(@, projectId)]
       IN  manager' = IF findIndex(manager.globalSettings.projects, projectId) = 0
                      THEN toggled
                      ELSE saveGlobalSettings(toggled, ok)
    /\ UNCHANGED << serviceVars, trigger, monitor >>

(***************************************************************************)
(* updateAuthSettings(authSettings)                                        *)
(***************************************************************************)
\* the settings other callers pass
ManagerAuthInputs ==
    {AuthSettings(UrlAcme, Tok1), AuthSettings(UrlAcmePadded, Tok1Padded),
     AuthSettings(UrlSpaces, Tok1), AuthSettings(UrlAcme, TokSpaces),
     AuthSettings(UrlEmpty, TokEmpty)}

\* updateAuthSettings up to `await this.saveGlobalSettings()`
updateAuthSettings(m, u, a, ok) ==
    saveGlobalSettings(
        [m EXCEPT !.globalSettings.auth = a,
                  !.updates[u] = [pc |-> "saving", given |-> a, saved |-> ok,
                                  initialized |-> Null]], ok)

UpdateAuthStart(u, a, ok) ==
    /\ manager.ops < MaxManagerOps
    /\ manager.updates[u].pc = "idle"
    /\ manager' = updateAuthSettings(Started(manager, "updateAuthSettings", a), u, a, ok)
    /\ UNCHANGED << serviceVars, trigger, monitor >>

\* a variant that initializes the client whatever the settings are
UpdateAuthSaved_noCheck(u) ==
    /\ manager.updates[u].pc = "saving"
    /\ IF manager.updates[u].saved
       THEN /\ ClientInitialize(manager.globalSettings.auth)
            /\ manager' = [manager EXCEPT !.updates[u].pc = "done",
                              !.updates[u].initialized = Some(manager.globalSettings.auth)]
            /\ UNCHANGED << ctorOptions, testMode, maxRetries, cacheTtl, now, proc, calls >>
       ELSE /\ manager' = [manager EXCEPT !.updates[u].pc = "failed"]
            /\ UNCHANGED serviceVars
    /\ UNCHANGED << trigger, monitor >>

\* the save has settled: a failed save throws, otherwise the client is
\* initialized when the settings now in memory are valid
UpdateAuthSaved(u) ==
    /\ manager.updates[u].pc = "saving"
    /\ IF manager.updates[u].saved /\ hasValidAuthSettings(manager.globalSettings)
       THEN /\ ClientInitialize(manager.globalSettings.auth)
            /\ manager' = [manager EXCEPT !.updates[u].pc = "done",
                              !.updates[u].initialized = Some(manager.globalSettings.auth)]
            /\ UNCHANGED << ctorOptions, testMode, maxRetries, cacheTtl, now, proc, calls >>
       ELSE /\ manager' = [manager EXCEPT !.updates[u].pc =
                              IF manager.updates[u].saved THEN "done" ELSE "failed"]
            /\ UNCHANGED serviceVars
    /\ UNCHANGED << trigger, monitor >>

\* the caller has seen updateAuthSettings settle
UpdateAuthReturn(u) ==
    /\ manager.updates[u].pc \in {"done", "failed"}
    /\ manager' = [manager EXCEPT !.updates[u] = IdleUpdate]
    /\ UNCHANGED << serviceVars, trigger, monitor >>

(***************************************************************************)
(* fetchAndAddProjects()                                                   *)
(***************************************************************************)
\* getProjects() with its default arguments
GetProjectsCall == Call("getProjects", "", "", 0, 100, 0)

\* a project as the remote endpoint lists it; "" stands for a missing property
Remote(id, name) == [id |-> id, name |-> name]

RemoteLists ==
    {<< Remote("p1", "A-remote"), Remote("p3", "C") >>,
     << Remote("", "X"), Remote("p2", ""), Remote("p3", "C"), Remote("p3", "C2") >>}

\* what the remote endpoint answers to getProjects
ProjectsOutcomes ==
    {Response(200, JObject(list)) : list \in RemoteLists}
        \cup {Response(200, JArray(<< >>)), Response(401, ErrorBody)}

\* the outcomes of the connection test
ProbeOutcomes == {Response(200, JObject(<< >>)), Response(401, ErrorBody), NetworkFailure}

InvalidSettingsError == OtherError("Error", "Invalid authentication settings")
ConnectionFailedError == OtherError("Error", "Connection to Azure DevOps failed")
InvalidFormatError == OtherError("Error", "Invalid response format from Azure DevOps API")
SaveFailedError == OtherError("Error", "setGlobalSettings failed")

IdsOf(projects) == {projects[i].id : i \in DOMAIN projects}

\* !project.id || !project.name
MissingProperties(project) == project.id = "" \/ project.name = ""

\* a variant that adds every entry that has both properties
NeedsAdd_always(fetch, projects, project) == ~MissingProperties(project)

\* the loop adds the entry: it has both properties and its id was not in the
\* list when the loop began
NeedsAdd(fetch, projects, project) ==
    ~MissingProperties(project) /\ project.id \notin fetch.existingProjectIds

\* the index of the next entry the loop adds, from entry i on; 0 when there is none
RECURSIVE NextToAdd(_, _, _)
NextToAdd(fetch, projects, i) ==
    IF i > Len(fetch.remote) THEN 0
    ELSE IF NeedsAdd(fetch, projects, fetch.remote[i]) THEN i
    ELSE NextToAdd(fetch, projects, i + 1)

\* the loop from entry i up to its next `await this.addOrUpdateProject`, or to the return
FetchLoop(m, i, ok) ==
    LET j == NextToAdd(m.fetch, m.globalSettings.projects, i)
        entry == m.fetch.remote[j]
    IN  IF j = 0
        THEN [m EXCEPT !.fetch.pc = "done", !.fetch.next = Len(m.fetch.remote) + 1,
                       !.fetch.result = Return(m.globalSettings.projects)]
        ELSE saveGlobalSettings(
                 [m EXCEPT !.globalSettings.projects =
                               addOrUpdateProject(@, createDefaultProjectSettings(entry.id, entry.name)),
                           !.fetch.pc = "saving", !.fetch.next = j + 1, !.fetch.saved = ok],
                 ok)

\* the loop run to its end with every save succeeding
RECURSIVE FetchToEnd(_)
FetchToEnd(m) ==
    IF m.fetch.pc = "done" THEN m ELSE FetchToEnd(FetchLoop(m, m.fetch.next, TRUE))

\* the project list a run of the loop over the remote list leaves
Merged(m, remote) ==
    FetchToEnd(FetchLoop([m EXCEPT !.fetch.remote = remote,
                                   !.fetch.existingProjectIds = IdsOf(m.globalSettings.projects)],
                         1, TRUE)).globalSettings.projects

\* fetchAndAddProjects() up to `await azureDevOpsClient.testConnection()`
FetchStart ==
    /\ manager.ops < MaxManagerOps
    /\ manager.fetch.pc = "idle"
    /\ proc[Fetcher].pc = "idle"
    /\ LET m == [Started(manager, "fetchAndAddProjects", "") EXCEPT
                    !.fetch = [IdleFetch EXCEPT !.before = manager.globalSettings.projects]]
       IN  IF ~hasValidAuthSettings(manager.globalSettings)
           THEN /\ manager' = [m EXCEPT !.fetch.pc = "done",
                                        !.fetch.result = Throw(InvalidSettingsError)]
                /\ UNCHANGED serviceVars
           ELSE /\ manager' = [m EXCEPT !.fetch.pc = "testing"]
                /\ calls' = calls + 1
                /\ proc' = [proc EXCEPT ![Fetcher] = ProbeEntered]
                /\ UNCHANGED << clientVars, cache, now, gen, epoch, origin, wiped >>
    /\ UNCHANGED << trigger, monitor >>

\* the connection test has returned: throw, or call getProjects()
FetchTested ==
    /\ manager.fetch.pc = "testing"
    /\ proc[Fetcher].pc = "done"
    /\ IF proc[Fetcher].result # Return(JBool(TRUE))
       THEN /\ manager' = [manager EXCEPT !.fetch.pc = "done",
                                          !.fetch.result = Throw(ConnectionFailedError)]
            /\ proc' = [proc EXCEPT ![Fetcher] = IdleProc]
            /\ UNCHANGED << clientVars, cache, now, gen, epoch, calls, origin, wiped >>
       ELSE /\ manager' = [manager EXCEPT !.fetch.pc = "fetching"]
            /\ RequestEnter(Fetcher, GetProjectsCall)
    /\ UNCHANGED << trigger, monitor >>

\* getProjects() has settled: rethrow, reject the format, or run the loop up
\* to its first addition
FetchProjectsReturned(ok) ==
    /\ manager.fetch.pc = "fetching"
    /\ proc[Fetcher].pc = "done"
    /\ LET r == proc[Fetcher].result
           value == IF r.kind = "return" THEN ValueOf(r.value) ELSE r
           failed(e) == [manager EXCEPT !.fetch.pc = "done", !.fetch.result = e]
       IN  manager' =
               IF value.kind = "throw" THEN failed(value)
               ELSE IF value.value.t # "array" THEN failed(Throw(InvalidFormatError))
               ELSE FetchLoop([manager EXCEPT
                                  !.fetch.remote = value.value.items,
                                  !.fetch.existingProjectIds = IdsOf(manager.globalSettings.projects)],
                              1, ok)
    /\ proc' = [proc EXCEPT ![Fetcher] = IdleProc]
    /\ UNCHANGED << clientVars, cache, now, gen, epoch, calls, origin, wiped >>
    /\ UNCHANGED << trigger, monitor >>

\* the save of an added project has settled: rethrow, or go on with the loop
FetchProjectSaved(ok) ==
    /\ manager.fetch.pc = "saving"
    /\ manager' = IF ~manager.fetch.saved
                  THEN [manager EXCEPT !.fetch.pc = "done",
                                       !.fetch.result = Throw(SaveFailedError)]
                  ELSE FetchLoop(manager, manager.fetch.next, ok)
    /\ UNCHANGED << serviceVars, trigger, monitor >>

\* the caller has seen fetchAndAddProjects settle
FetchReturn ==
    /\ manager.fetch.pc = "done"
    /\ manager' = [manager EXCEPT !.fetch.pc = "idle"]
    /\ UNCHANGED << serviceVars, trigger, monitor >>

\* The manager's project list, refresh interval and credentials under the
\* operations of its callers, one fetchAndAddProjects at a time
ProjectsAuth == AuthSettings(UrlAcme, Tok1)

NextProjects ==
    \/ \E ok \in BOOLEAN : UpdateAuthStart("direct", ProjectsAuth, ok)
    \/ UpdateAuthSaved("direct")
    \/ UpdateAuthReturn("direct")
    \/ \E seconds \in RefreshInputs, ok \in BOOLEAN : UpdateRefreshInterval(seconds, ok)
    \/ \E project \in ProjectInputs, ok \in BOOLEAN : AddOrUpdateProject(project, ok)
    \/ \E projectId \in ProjectIdInputs, ok \in BOOLEAN : RemoveProject(projectId, ok)
    \/ \E projectId \in ProjectIdInputs, ok \in BOOLEAN : ToggleProjectFavorite(projectId, ok)
    \/ FetchStart
    \/ \E outcome \in ProbeOutcomes : TestConnectionSettle(Fetcher, outcome)
    \/ FetchTested
    \/ \E outcome \in ProjectsOutcomes : FetchSettle(Fetcher, outcome, MidRandom)
    \/ \E ok \in BOOLEAN : FetchProjectsReturned(ok)
    \/ \E ok \in BOOLEAN : FetchProjectSaved(ok)
    \/ FetchReturn

SpecProjects == Init /\ [][NextProjects]_vars

(***************************************************************************)
(* The testConnection command of the property inspector                    *)
(* (handleTestConnectionCommand), one command at a time, next to a button  *)
(* that polls through the same client.                                     *)
(***************************************************************************)
Tester == "c1"
Poller == "c2"

\* the texts the property inspector sends
CommandInputs ==
    {AuthSettings(UrlAcmePadded, Tok1Padded), AuthSettings(UrlAcme, Tok2),
     AuthSettings(UrlSpaces, Tok1), AuthSettings(UrlAcme, TokSpaces)}

RequiredMessage == "Organization URL and Personal Access Token are required"
FailedMessage == "Failed to connect to Azure DevOps"

\* the testConnectionResult message; error "" stands for null
Reply(success, error) == [command |-> "testConnectionResult", success |-> success, error |-> error]

\* the command up to `await azureDevOpsClient.testConnection()`, or, for blank
\* credentials, to the reply of the catch block
TestCommandStart(raw) ==
    /\ manager.ops < MaxManagerOps
    /\ manager.test.pc = "idle"
    /\ proc[Tester].pc = "idle"
    /\ LET a == AuthSettings(TrimUrl(raw.organizationUrl), TrimToken(raw.personalAccessToken))
           m == [Started(manager, "testConnection", raw) EXCEPT
                    !.test = [IdleTest EXCEPT !.authSettings = a, !.before = manager.stored]]
       IN  IF a.organizationUrl.text = "" \/ a.personalAccessToken = << >>
           THEN /\ manager' = [m EXCEPT !.test.pc = "done",
                                        !.test.reply = Some(Reply(FALSE, RequiredMessage))]
                /\ UNCHANGED serviceVars
           ELSE /\ ClientInitialize(a)
                /\ calls' = calls + 1
                /\ proc' = [proc EXCEPT ![Tester] = ProbeEntered']
                /\ manager' = [m EXCEPT !.test.pc = "testing", !.test.gen = gen']
                /\ UNCHANGED << ctorOptions, testMode, maxRetries, cacheTtl, now >>
    /\ UNCHANGED << trigger, monitor >>

\* a variant that saves the credentials whatever the test said
TestCommandTested_always(ok) ==
    /\ manager.test.pc = "testing"
    /\ proc[Tester].pc = "done"
    /\ manager' = updateAuthSettings(
           [manager EXCEPT !.test.pc = "saving",
                           !.test.tested = Some(proc[Tester].result = Return(JBool(TRUE)))],
           "command", manager.test.authSettings, ok)
    /\ proc' = [proc EXCEPT ![Tester] = IdleProc]
    /\ UNCHANGED << clientVars, cache, now, gen, epoch, calls, origin, wiped >>
    /\ UNCHANGED << trigger, monitor >>

\* a variant that puts the saved credentials back when the test has failed
TestCommandTested_restore(ok) ==
    /\ manager.test.pc = "testing"
    /\ proc[Tester].pc = "done"
    /\ proc' = [proc EXCEPT ![Tester] = IdleProc]
    /\ IF proc[Tester].result = Return(JBool(TRUE))
       THEN /\ manager' = updateAuthSettings(
                   [manager EXCEPT !.test.pc = "saving", !.test.tested = Some(TRUE)],
                   "command", manager.test.authSettings, ok)
            /\ UNCHANGED << clientVars, cache, gen, epoch, origin, wiped >>
       ELSE /\ manager' = [manager EXCEPT !.test.pc = "done", !.test.tested = Some(FALSE),
                                          !.test.reply = Some(Reply(FALSE, FailedMessage))]
            /\ ClientInitialize(manager.globalSettings.auth)
            /\ UNCHANGED << ctorOptions, testMode, maxRetries, cacheTtl >>
    /\ UNCHANGED << now, calls, trigger, monitor >>

\* testConnection() has returned: on true updateAuthSettings is called and
\* runs up to its save, on false the failure is reported
TestCommandTested(ok) ==
    /\ manager.test.pc = "testing"
    /\ proc[Tester].pc = "done"
    /\ manager' =
           IF proc[Tester].result = Return(JBool(TRUE))
           THEN updateAuthSettings(
                    [manager EXCEPT !.test.pc = "saving", !.test.tested = Some(TRUE)],
                    "command", manager.test.authSettings, ok)
           ELSE [manager EXCEPT !.test.pc = "done", !.test.tested = Some(FALSE),
                                !.test.reply = Some(Reply(FALSE, FailedMessage))]
    /\ proc' = [proc EXCEPT ![Tester] = IdleProc]
    /\ UNCHANGED << clientVars, cache, now, gen, epoch, calls, origin, wiped >>
    /\ UNCHANGED << trigger, monitor >>

\* updateAuthSettings has settled: success is reported, or the message of
\* what it threw
TestCommandReplied ==
    /\ manager.test.pc = "saving"
    /\ manager.updates["command"].pc \in {"done", "failed"}
    /\ manager' = [manager EXCEPT
           !.test.pc = "done",
           !.test.reply = IF manager.updates["command"].pc = "done"
                          THEN Some(Reply(TRUE, ""))
                          ELSE Some(Reply(FALSE, SaveFailedError.message)),
           !.updates["command"] = IdleUpdate]
    /\ UNCHANGED << serviceVars, trigger, monitor >>

\* the property inspector has the reply
TestCommandReturn ==
    /\ manager.test.pc = "done"
    /\ manager' = [manager EXCEPT !.test.pc = "idle"]
    /\ UNCHANGED << serviceVars, trigger, monitor >>

\* what the polling button asks for and what it is answered
PollCall == Call("getPipelineStatus", "proj", "", 42, 0, 0)
PollOutcomes == {Response(200, JObject(<< "b1" >>))}

\* Credential updates of two callers and a polling button on the one client
NextAuth ==
    \/ \E u \in Updates, a \in ManagerAuthInputs, ok \in BOOLEAN : UpdateAuthStart(u, a, ok)
    \/ \E u \in Updates : UpdateAuthSaved(u)
    \/ \E u \in Updates : UpdateAuthReturn(u)
    \/ RequestStart(Poller, PollCall)
    \/ \E outcome \in PollOutcomes : FetchSettle(Poller, outcome, MidRandom)
    \/ Finish(Poller)

SpecAuth == Init /\ [][NextAuth]_vars

\* Connection tests next to a polling button, after credentials were saved
NextConnect ==
    \/ \E raw \in CommandInputs : TestCommandStart(raw)
    \/ \E outcome \in ProbeOutcomes : TestConnectionSettle(Tester, outcome)
    \/ \E ok \in BOOLEAN : TestCommandTested(ok)
    \/ \E u \in Updates : UpdateAuthSaved(u)
    \/ TestCommandReplied
    \/ TestCommandReturn
    \/ UpdateAuthStart("direct", ProjectsAuth, TRUE)
    \/ UpdateAuthReturn("direct")
    \/ RequestStart(Poller, PollCall)
    \/ \E outcome \in PollOutcomes : FetchSettle(Poller, outcome, MidRandom)
    \/ Finish(Poller)

SpecConnect == Init /\ [][NextConnect]_vars

TypeOK ==
    /\ \A p \in Procs : proc[p].pc \in {"idle", "fetching", "backoff", "probing", "done"}
    /\ DOMAIN origin = DOMAIN cache
    /\ now \in 0 .. MaxTime


(***************************************************************************)
(* Properties.                                                             *)
(***************************************************************************)
\* caller p enters a request-backed call in this step
Starts(p) == proc[p].pc = "idle" /\ proc'[p].pc # "idle" /\ proc'[p].call.op \in RequestOps

\* the cache key of the call p has just entered
StartedKey(p) == getCacheKey(Path(proc'[p].call), RequestOptions(proc'[p].call))

\* the call p has just entered is cache-eligible and reaches the cache lookup
StartsEligible(p) ==
    /\ Starts(p)
    /\ CanBuildUrl
    /\ CacheEligible(RequestOptions(proc'[p].call))

\* C1: a cache-eligible call that starts while its key holds an entry written
\* within the TTL (expiry not passed) is answered from that entry: it makes no
\* network call and the caller gets the first call's data; a call that starts
\* after the entry's expiry has passed makes a network call.
C1_SecondCallServedFromCache ==
    [][\A p \in Procs :
          (StartsEligible(p) /\ StartedKey(p) \in DOMAIN cache) =>
              IF cache[StartedKey(p)].expiry >= now
              THEN /\ proc'[p].pc = "done"
                   /\ proc'[p].nets = 0
                   /\ proc'[p].result = Wrapper(proc'[p].call.op, Return(cache[StartedKey(p)].data))
              ELSE /\ proc'[p].pc = "fetching"
                   /\ proc'[p].nets = 1]_vars

\* C2: initialize and clearCache leave the cache empty; every entry the cache
\* holds was written after the latest of them; and a cache-eligible call that
\* starts while its key has no entry goes to the network.
C2_ClearForcesRefetch ==
    /\ [][epoch' # epoch => cache' = EmptyCache]_vars
    /\ [](\A k \in DOMAIN cache : origin[k].epoch = epoch)
    /\ [][\A p \in Procs :
             (StartsEligible(p) /\ StartedKey(p) \notin DOMAIN cache) =>
                 (proc'[p].pc = "fetching" /\ proc'[p].nets = 1 /\ ~proc'[p].fromCache)]_vars

\* C2 witness: a key was cached, a clear removed it, and an identical call
\* started after the clear has fetched its result from the network.
C2_Witness ==
    \E p \in Procs :
        /\ proc[p].pc = "done"
        /\ proc[p].cacheKey \in wiped
        /\ proc[p].startEpoch = epoch
        /\ epoch >= 2
        /\ ~proc[p].fromCache
        /\ proc[p].nets >= 1
        /\ proc[p].result.kind = "return"

\* C3: a call answered from the cache gets data that was fetched with the
\* Authorization header in force when the call started, never data fetched
\* under earlier credentials.
C3_NoStaleCredentialData ==
    \A p \in Procs :
        (proc[p].pc = "done" /\ proc[p].fromCache) =>
            proc[p].dataAuthorization = proc[p].authorization


\* p's request-backed call has ended in an error classified as retryable:
\* every one of its attempts failed retryably and only the ceiling stopped it
Exhausted(p) ==
    /\ proc[p].pc = "done"
    /\ proc[p].call.op \in RequestOps
    /\ proc[p].result.kind = "throw"
    /\ isRetryableError(proc[p].result.error)

\* the ceiling in effect for constructor option o
EffectiveCeiling(o) == IF o = Null \/ o = Some(0) THEN 3 ELSE o[1]

\* C4 as stated: after N consecutive retryable failures under a retry ceiling
\* option R >= 0 the request has made exactly min(N, R) network attempts.
C4_ExactlyMinAttempts ==
    \A p \in Procs :
        (Exhausted(p) /\ ctorOptions.maxRetries # Null /\ ctorOptions.maxRetries # Some(-1)) =>
            proc[p].nets = Min(proc[p].attempt, ctorOptions.maxRetries[1])

\* C4 amended: the ceiling in effect is M = R for a non-zero option R and 3
\* for R = 0 or no option; a request whose attempts all fail retryably makes
\* exactly max(1, M) network attempts and the caller gets the error of the last
\* attempt (kind, status code); no request makes more than max(1, M) attempts.
C4_CeilingAttempts ==
    \A p \in Procs :
        /\ maxRetries = EffectiveCeiling(ctorOptions.maxRetries)
        /\ proc[p].call.op \in RequestOps => proc[p].nets <= Max(1, maxRetries)
        /\ Exhausted(p) =>
              /\ proc[p].nets = Max(1, maxRetries)
              /\ proc[p].attempt = proc[p].nets
              /\ proc[p].last.kind = "response"
              /\ proc[p].result.error.name = "ApiError"
              /\ proc[p].result.error.statusCode = proc[p].last.status
              /\ proc[p].result.error.type =
                     (CASE proc[p].last.status = 429 -> "rateLimit"
                        [] proc[p].last.status \in {500, 502, 503, 504} -> "serverError"
                        [] OTHER -> "unknown")

\* C4 witness: the option R = 0 and a request that gave up after three
\* retryable failures with the last one's error
C4_Witness ==
    /\ ctorOptions.maxRetries = Some(0)
    /\ Exhausted(Solo)
    /\ proc[Solo].nets = 3
    /\ proc[Solo].result.error.statusCode = 503

\* a failure status the table classifies as non-retryable
NonRetryableStatus(status) == ~ResponseOk(status) /\ status < 500 /\ status # 429

\* C5: a non-retryable failure response ends the request at once: no further
\* network attempt, no backoff wait after it, whatever the ceiling; as the
\* first response it leaves exactly one attempt and no wait.  The caller gets
\* the classified error, or null / an empty list where NotFound is tolerated.
C5_NonRetryableShortCircuit ==
    \A p \in Procs :
        (/\ proc[p].call.op \in RequestOps
         /\ proc[p].last.kind = "response"
         /\ NonRetryableStatus(proc[p].last.status)) =>
            /\ proc[p].pc = "done"
            /\ proc[p].nets = proc[p].attempt
            /\ proc[p].waits < proc[p].attempt
            /\ proc[p].attempt = 1 => (proc[p].nets = 1 /\ proc[p].waits = 0)
            /\ IF proc[p].last.status = 404 /\ proc[p].call.op = "getPipelineStatus"
               THEN proc[p].result = Return(JNull)
               ELSE IF proc[p].last.status = 404
                        /\ proc[p].call.op \in {"getPullRequests", "getRepositories"}
               THEN proc[p].result = Return(JArray(<< >>))
               ELSE /\ proc[p].result.kind = "throw"
                    /\ proc[p].result.error.name = "ApiError"
                    /\ proc[p].result.error.statusCode = proc[p].last.status
                    /\ ~proc[p].result.error.retryable

\* C5 witness: a 401 as first response under the default ceiling of three
C5_Witness ==
    /\ proc[Solo].pc = "done"
    /\ proc[Solo].call.op = "getProjects"
    /\ proc[Solo].last = Response(401, ErrorBody)
    /\ maxRetries = 3
    /\ proc[Solo].nets = 1
    /\ proc[Solo].result.kind = "throw"

\* the (kind, retryable) table of the specification
TableKind(status) ==
    IF status \in {401, 403} THEN << "authentication", FALSE >>
    ELSE IF status = 404 THEN << "notFound", FALSE >>
    ELSE IF status = 429 THEN << "rateLimit", TRUE >>
    ELSE IF status \in {500, 502, 503, 504} THEN << "serverError", TRUE >>
    ELSE IF status >= 500 THEN << "unknown", TRUE >>
    ELSE << "unknown", FALSE >>

\* C6: the error a request ends with after a non-success status is an ApiError
\* whose kind and retryable flag are those of the table and whose statusCode
\* is the response status.
C6_StatusTable ==
    \A p \in Procs :
        (/\ proc[p].pc = "done"
         /\ proc[p].last.kind = "response"
         /\ ~ResponseOk(proc[p].last.status)) =>
            /\ proc[p].result.kind = "throw"
            /\ proc[p].result.error.name = "ApiError"
            /\ proc[p].result.error.statusCode = proc[p].last.status
            /\ << proc[p].result.error.type, proc[p].result.error.retryable >>
                   = TableKind(proc[p].last.status)

\* C6 witness: a 403 has been classified
C6_Witness ==
    /\ proc[Solo].pc = "done"
    /\ proc[Solo].last.status = 403
    /\ proc[Solo].result.error.type = "authentication"

\* C7 as stated: a request whose fetch was rejected by the network layer ends
\* only when the retry ceiling is reached.
C7_NetworkFailureRetried ==
    \A p \in Procs :
        (/\ proc[p].pc = "done"
         /\ proc[p].call.op \in RequestOps
         /\ proc[p].last.kind = "reject") =>
            proc[p].attempt >= maxRetries


\* C8: after a 404, getPipelineStatus returns null and getPullRequests and
\* getRepositories return an empty list; getProjects and
\* getPipelineDefinitions throw the NotFound ApiError; after any other failure
\* (another failure status, a rejected fetch, an unparsable body) all five
\* throw that failure.
C8_NotFoundTolerance ==
    \A p \in Procs :
        (/\ proc[p].pc = "done"
         /\ proc[p].call.op \in RequestOps \ {"queuePipelineRun"}
         /\ proc[p].last.kind # "none") =>
            LET op == proc[p].call.op
                last == proc[p].last
                result == proc[p].result
            IN  /\ (last.kind = "response" /\ last.status = 404) =>
                      /\ op = "getPipelineStatus" => result = Return(JNull)
                      /\ op \in {"getPullRequests", "getRepositories"} =>
                             result = Return(JArray(<< >>))
                      /\ op \in {"getProjects", "getPipelineDefinitions"} =>
                             /\ result.kind = "throw"
                             /\ result.error.name = "ApiError"
                             /\ result.error.type = "notFound"
                             /\ result.error.statusCode = 404
                /\ (last.kind = "response" /\ ~ResponseOk(last.status) /\ last.status # 404) =>
                      /\ result.kind = "throw"
                      /\ result.error.name = "ApiError"
                      /\ result.error.type # "notFound"
                      /\ result.error.statusCode = last.status
                /\ last.kind = "reject" => result = Throw(FetchFailedError)
                /\ (last.kind = "response" /\ ResponseOk(last.status) /\ last.body = JInvalid) =>
                      result = Throw(JsonSyntaxError)

\* C8 witness: getPullRequests has swallowed a 404 and getProjects could not
C8_Witness ==
    /\ proc[Solo].pc = "done"
    /\ proc[Solo].call.op = "getPullRequests"
    /\ proc[Solo].last.status = 404
    /\ proc[Solo].result = Return(JArray(<< >>))

\* C9: a finished testConnection has returned a boolean, never thrown; true
\* only after one probe with a success status; false after a failure status,
\* a rejected fetch, an unparsable body, and when no probe could be sent
\* (client not initialized, organization URL unparsable).
C9_TestConnectionBoolean ==
    \A p \in Procs :
        (proc[p].pc = "done" /\ proc[p].call.op = "testConnection") =>
            LET last == proc[p].last
                result == proc[p].result
            IN  /\ result.kind = "return"
                /\ result.value.t \in {"true", "false"}
                /\ result.value.t = "true" =>
                       (last.kind = "response" /\ ResponseOk(last.status) /\ proc[p].nets = 1)
                /\ (last.kind = "response" /\ ~ResponseOk(last.status)) => result.value.t = "false"
                /\ last.kind = "reject" => result.value.t = "false"
                /\ (last.kind = "response" /\ last.body = JInvalid) => result.value.t = "false"
                /\ proc[p].nets = 0 => result.value.t = "false"

\* C9 witness: testConnection has turned a rejected fetch into false
C9_Witness ==
    /\ proc[Solo].pc = "done"
    /\ proc[Solo].call.op = "testConnection"
    /\ proc[Solo].last.kind = "reject"
    /\ proc[Solo].result = Return(JBool(FALSE))

\* C10: testConnection sends one probe and no more, whatever the response
\* (429 and 5xx included), never waits, is never answered from the cache even
\* when the cache holds a live entry for the probed path, and none of its
\* steps changes the cache.
C10_TestConnectionDirect ==
    /\ [](\A p \in Procs :
             proc[p].call.op = "testConnection" =>
                 /\ proc[p].nets <= 1
                 /\ proc[p].waits = 0
                 /\ proc[p].attempt = 0
                 /\ ~proc[p].fromCache
                 /\ proc[p].pc \in {"probing", "done"}
                 /\ (proc[p].pc = "probing" \/ proc[p].last.kind # "none") => proc[p].nets = 1)
    /\ [][\A p \in Procs :
             (proc'[p] # proc[p]
              /\ (proc[p].call.op = "testConnection" \/ proc'[p].call.op = "testConnection")) =>
                 /\ cache' = cache
                 /\ (proc[p].pc = "idle" /\ CanBuildUrl) =>
                        (proc'[p].pc = "probing" /\ proc'[p].nets = 1)
                 /\ proc[p].pc = "probing" => proc'[p].pc = "done"]_vars

\* C10 witness: a probe answered 429 has ended after one attempt while the
\* cache holds a live entry for the probed path
C10_Witness ==
    /\ proc[Solo].pc = "done"
    /\ proc[Solo].call.op = "testConnection"
    /\ proc[Solo].last.status = 429
    /\ proc[Solo].nets = 1
    /\ CacheLive(cache, TestConnectionPath, now)
    /\ maxRetries = 3

\* the "not initialized" outcome of a call
NotInitialized(r) == r = Throw(NotInitializedError) /\ ~IsApiError(r.error)

\* a finished call of one of the nine resource operations that started before
\* the first initialize
UninitializedCall(p) ==
    /\ proc[p].pc = "done"
    /\ proc[p].startAuth = Null
    /\ proc[p].call.op \in RequestOps \cup {"getOrganizationName", "testConnection"}

\* C11 as stated: before the first initialize every resource operation,
\* testConnection included, signals the "not initialized" error (not an
\* ApiError), issues no network request and leaves the cache unchanged.
C11_UninitializedSignalsError ==
    \A p \in Procs :
        UninitializedCall(p) =>
            /\ NotInitialized(proc[p].result)
            /\ proc[p].nets = 0
            /\ proc[p].sent = NoRequest
            /\ cache = EmptyCache

\* C11 amended: before the first initialize every resource operation except
\* testConnection signals the "not initialized" error, which is not an
\* ApiError; testConnection returns false; none of the nine issues a network
\* request or changes the cache.
C11_UninitializedFailsFast ==
    \A p \in Procs :
        UninitializedCall(p) =>
            /\ IF proc[p].call.op = "testConnection"
               THEN proc[p].result = Return(JBool(FALSE))
               ELSE NotInitialized(proc[p].result)
            /\ proc[p].nets = 0
            /\ proc[p].sent = NoRequest
            /\ proc[p].writes = 0
            /\ ~proc[p].fromCache
            /\ cache = EmptyCache

\* C11 witness: getLatestPipelineRunUrl called on the uninitialized client has
\* thrown the "not initialized" error.
C11_Witness ==
    /\ gen = 0
    /\ UninitializedCall(Solo)
    /\ proc[Solo].call.op = "getLatestPipelineRunUrl"
    /\ proc[Solo].result = Throw(NotInitializedError)

\* caller p is inside a queuePipelineRun call before or after the step
InQueueCall(p) ==
    /\ proc'[p] # proc[p]
    /\ "queuePipelineRun" \in {proc[p].call.op, proc'[p].call.op}

\* C12: a finished queuePipelineRun was never answered from the cache and
\* never wrote it; unless it failed the initialization or URL check it issued
\* at least one network request, a POST; and no step of a queuePipelineRun
\* call adds, replaces or removes a cache entry.
C12_QueueBypassesCache ==
    /\ [](\A p \in Procs :
            (proc[p].pc = "done" /\ proc[p].call.op = "queuePipelineRun") =>
                /\ ~proc[p].fromCache
                /\ proc[p].writes = 0
                /\ \/ proc[p].nets >= 1 /\ proc[p].sent.method = "POST"
                   \/ /\ proc[p].nets = 0
                      /\ proc[p].result \in {Throw(NotInitializedError), Throw(InvalidUrlError)})
    /\ [][\A p \in Procs : InQueueCall(p) => cache' = cache]_vars

\* C12 witness: a queuePipelineRun has returned the queued build from the
\* network while the cache held entries.
C12_Witness ==
    \E p \in Procs :
        /\ proc[p].pc = "done"
        /\ proc[p].call.op = "queuePipelineRun"
        /\ proc[p].result.kind = "return"
        /\ proc[p].nets >= 1
        /\ cache # EmptyCache

\* C13: a call answered from the cache got the data of an entry whose expiry
\* had not passed when it was read; a lookup that finds an entry whose expiry
\* has passed removes the entry, answers nothing from it and goes to the
\* network.
C13_NoExpiredRead ==
    [][\A p \in Procs :
          /\ (Starts(p) /\ proc'[p].fromCache) =>
                 /\ StartedKey(p) \in DOMAIN cache
                 /\ cache[StartedKey(p)].expiry >= now
                 /\ proc'[p].result =
                        Wrapper(proc'[p].call.op, Return(cache[StartedKey(p)].data))
          /\ (StartsEligible(p) /\ StartedKey(p) \in DOMAIN cache
                 /\ cache[StartedKey(p)].expiry < now) =>
                 /\ StartedKey(p) \notin DOMAIN cache'
                 /\ ~proc'[p].fromCache
                 /\ proc'[p].pc = "fetching"
                 /\ proc'[p].nets = 1]_vars

\* C13 witness: a call whose lookup removed an expired entry is fetching from
\* the network.
C13_Witness ==
    \E p \in Procs :
        /\ proc[p].pc = "fetching"
        /\ proc[p].evicted
        /\ proc[p].cacheKey \notin DOMAIN cache
        /\ now > cacheTtl

\* the request of this call is a GET without skipCache
GetNoSkip(call) ==
    FetchMethod(RequestOptions(call)) = "GET" /\ ~RequestOptions(call).skipCache

\* the keys whose entry the step adds or replaces
Written == {k \in DOMAIN cache' : k \notin DOMAIN cache \/ cache'[k] # cache[k]}

\* the fetch of caller p settles in this step
Settles(p) == proc[p].pc = "fetching" /\ proc'[p] # proc[p]

\* C14: a step writes the cache only when the fetch of a GET request without
\* skipCache settles with a successful response, and then writes that
\* request's key with that response's data; a step in which an attempt fails
\* (retried or given up) leaves the cache unchanged; a finished call has
\* written the cache once if it is such a request and succeeded on the
\* network, after however many retries, and never otherwise.
C14_WriteOnlyOnSuccess ==
    /\ [][Written # {} =>
            \E p \in Procs :
                /\ Settles(p)
                /\ AttemptResult(proc'[p].last).kind = "return"
                /\ GetNoSkip(proc[p].call)
                /\ Written = {proc[p].cacheKey}
                /\ cache'[proc[p].cacheKey].data = proc'[p].last.body]_vars
    /\ [][\A p \in Procs :
            (Settles(p) /\ AttemptResult(proc'[p].last).kind = "throw") => cache' = cache]_vars
    /\ [](\A p \in Procs :
            proc[p].writes =
                IF /\ proc[p].pc = "done"
                   /\ proc[p].call.op \in RequestOps
                   /\ GetNoSkip(proc[p].call)
                   /\ proc[p].nets >= 1
                   /\ AttemptResult(proc[p].last).kind = "return"
                THEN 1 ELSE 0)

\* C14 witness: a GET request that failed twice and then succeeded has written
\* the cache once.
C14_Witness ==
    \E p \in Procs :
        /\ proc[p].pc = "done"
        /\ proc[p].attempt = 2
        /\ proc[p].nets = 3
        /\ proc[p].result.kind = "return"
        /\ proc[p].writes = 1
        /\ proc[p].cacheKey \in DOMAIN cache

\* min(1000 * 2^n, 30000): the cap is reached from n = 5 on (32000)
CappedBase(n) == IF n >= 5 THEN 30000 ELSE 1000 * 2^n

\* C15 as stated: every backoff wait is at most 30 seconds.
C15_WaitAtMost30s ==
    \A p \in Procs : proc[p].pc = "backoff" => proc[p].backoffMs <= 30000

\* C15 amended: the wait before a retry is min(1000 * 2^attempt, 30000) ms
\* times a jitter factor in [0.75, 1.25), attempt being the number of attempts
\* that have failed so far; for every attempt number and retry ceiling it is
\* less than 37.5 seconds.
C15_WaitJitteredCap ==
    \A p \in Procs :
        proc[p].pc = "backoff" =>
            /\ proc[p].attempt >= 1
            /\ proc[p].attempt = proc[p].nets
            /\ 4 * proc[p].backoffMs >= 3 * CappedBase(proc[p].attempt)
            /\ 4 * proc[p].backoffMs < 5 * CappedBase(proc[p].attempt)
            /\ proc[p].backoffMs < 37500

\* C15 witness: after five failed attempts the request waits more than 30
\* seconds.
C15_Witness ==
    \E p \in Procs :
        /\ proc[p].pc = "backoff"
        /\ proc[p].attempt = 5
        /\ proc[p].backoffMs > 30000

\* C20: no call makes more network attempts than the retry ceiling, or than
\* one when the ceiling is below one; and, every fetch settling and every
\* backoff timer firing, a call that is fetching or waiting eventually ends
\* with a returned result or a thrown error.
C20_Terminates ==
    /\ [](\A p \in Procs : proc[p].nets <= Max(1, maxRetries))
    /\ [](\A p \in Procs : proc[p].pc = "done" => proc[p].result.kind \in {"return", "throw"})
    /\ \A p \in Procs : (proc[p].pc \in {"fetching", "backoff"}) ~> (proc[p].pc = "done")

\* C20 witness: under a ceiling of 7 a request has thrown after seven
\* attempts, six of them followed by a wait.
C20_Witness ==
    \E p \in Procs :
        /\ proc[p].pc = "done"
        /\ maxRetries = 7
        /\ proc[p].nets = 7
        /\ proc[p].waits = 6
        /\ proc[p].result.kind = "throw"

\* the loop must stop after this failure: ceiling reached or a failure that is
\* not a retryable ApiError
MustStop(attempt, r) ==
    attempt >= maxRetries \/ ~(IsApiError(r.error) /\ r.error.retryable)

\* C16: when a fetch settles, whether the call ends, what it returns or
\* throws and how many attempts it has made depend only on the attempt
\* number, the response and the ceiling, never on test mode; when the loop
\* goes on, test mode on issues the next attempt at once and counts no wait,
\* test mode off starts one wait after which the same next attempt is issued.
C16_TestModeOnlySkipsWait ==
    /\ [][\A p \in Procs :
            Settles(p) =>
                LET attempt == proc[p].attempt + 1
                    r == AttemptResult(proc'[p].last)
                IN  IF r.kind = "return" \/ MustStop(attempt, r)
                    THEN /\ proc'[p].pc = "done"
                         /\ proc'[p].result = Wrapper(proc[p].call.op, r)
                         /\ proc'[p].nets = proc[p].nets
                         /\ proc'[p].waits = proc[p].waits
                    ELSE /\ proc'[p].attempt = attempt
                         /\ IF testMode
                            THEN /\ proc'[p].pc = "fetching"
                                 /\ proc'[p].nets = proc[p].nets + 1
                                 /\ proc'[p].waits = proc[p].waits
                            ELSE /\ proc'[p].pc = "backoff"
                                 /\ proc'[p].nets = proc[p].nets
                                 /\ proc'[p].waits = proc[p].waits + 1]_vars
    /\ [][\A p \in Procs :
            (proc[p].pc = "backoff" /\ proc'[p] # proc[p]) =>
                /\ proc'[p].pc = "fetching"
                /\ proc'[p].nets = proc[p].nets + 1
                /\ proc'[p].attempt = proc[p].attempt
                /\ proc'[p].waits = proc[p].waits]_vars
    /\ [](\A p \in Procs :
            /\ proc[p].pc = "fetching" => proc[p].nets = proc[p].attempt + 1
            /\ proc[p].pc = "backoff" => proc[p].nets = proc[p].attempt)

\* C16 witness: in test mode a request whose first two attempts failed with a
\* retryable status and whose third got 200 has returned after three network
\* calls and no wait.
C16_Witness ==
    \E p \in Procs :
        /\ testMode
        /\ proc[p].pc = "done"
        /\ proc[p].attempt = 2
        /\ proc[p].nets = 3
        /\ proc[p].waits = 0
        /\ proc[p].last.status = 200
        /\ proc[p].result.kind = "return"

\* base64 of ":t1" is "OnQx", of ":t2" is "OnQy" (as 6-bit digits)
ExpectedCredentials(pat) ==
    IF pat = Tok1 THEN << 14, 39, 16, 49 >> ELSE << 14, 39, 16, 50 >>

\* the request a call must send, given the settings it started under
RequestUnder(auth, call) ==
    [url |-> "https://dev.azure.com/"
                \o (IF auth.organizationUrl = UrlAcme THEN "acme" ELSE "")
                \o "/" \o Path(call) \o "?api-version=7.1",
     authorization |-> [scheme |-> "Basic",
                        credentials |-> ExpectedCredentials(auth.personalAccessToken)],
     method |-> IF call.op = "queuePipelineRun" THEN "POST" ELSE "GET"]

\* C17: every network attempt of a request, first or retry, is sent to the
\* URL and with the Authorization header of the settings that were current
\* when the request started, whatever initialize has set since; and a request
\* that starts is sent under the settings of the latest initialize.
C17_InFlightKeepsCredentials ==
    /\ [](\A p \in Procs :
            (proc[p].pc \in {"fetching", "backoff"}) =>
                proc[p].sent = RequestUnder(proc[p].startAuth[1], proc[p].call))
    /\ [][\A p \in Procs :
            (Starts(p) /\ proc'[p].pc = "fetching") =>
                /\ proc'[p].startAuth = authSettings
                /\ proc'[p].sent = RequestUnder(authSettings[1], proc'[p].call)]_vars
    /\ [][gen' # gen =>
            \E a \in AuthInputs :
                /\ authSettings' = Some(a)
                /\ headers' = RequestUnder(a, NoCall).authorization]_vars

\* C17 witness: a retry has been sent to the old URL with the old token after
\* initialize changed both.
C17_Witness ==
    \E p \in Procs :
        /\ proc[p].pc = "fetching"
        /\ proc[p].attempt >= 1
        /\ proc[p].nets >= 2
        /\ authSettings[1].organizationUrl.parses
        /\ proc[p].sent.authorization # headers
        /\ proc[p].sent.url # buildUrl(authSettings[1], Path(proc[p].call))

\* C18: a cache-eligible call that starts while another caller's request for
\* the same key is still in flight and the key has no entry issues its own
\* network request and leaves the other request alone; every request that
\* succeeds gives its caller the data of its own response and overwrites the
\* key's entry with it, so that the entry is that of the latest completion.
C18_NoCoalescing ==
    /\ [][\A p, q \in Procs :
            (/\ p # q
             /\ StartsEligible(p)
             /\ proc[q].pc \in {"fetching", "backoff"}
             /\ proc[q].cacheKey = StartedKey(p)
             /\ StartedKey(p) \notin DOMAIN cache) =>
                /\ proc'[p].pc = "fetching"
                /\ proc'[p].nets = 1
                /\ proc'[q] = proc[q]]_vars
    /\ [][\A p \in Procs :
            (Settles(p) /\ AttemptResult(proc'[p].last).kind = "return"
                /\ GetNoSkip(proc[p].call)) =>
                /\ proc'[p].result = Wrapper(proc[p].call.op, Return(proc'[p].last.body))
                /\ proc[p].cacheKey \in DOMAIN cache'
                /\ cache'[proc[p].cacheKey].data = proc'[p].last.body]_vars

\* C18 witness: two callers asked for the same uncached key at overlapping
\* times, each made its own network request and got its own, different data,
\* and the cache holds the data of the one that completed last.
C18_Witness ==
    \E p, q \in Procs :
        /\ p # q
        /\ proc[p].pc = "done" /\ proc[q].pc = "done"
        /\ proc[p].cacheKey = proc[q].cacheKey
        /\ ~proc[p].fromCache /\ ~proc[q].fromCache
        /\ proc[p].nets >= 1 /\ proc[q].nets >= 1
        /\ proc[p].result = Return(JArray(<< "b1" >>))
        /\ proc[q].result = Return(JNull)
        /\ now = 0 /\ epoch = 1
        /\ proc[q].cacheKey \in DOMAIN cache
        /\ cache[proc[q].cacheKey].data = JNull

\* C19: whatever the state before, an initialize step ends with auth settings
\* a, the Authorization header "Basic " + base64(":" + a.personalAccessToken)
\* and an empty cache, and changes nothing else of the client; so the state
\* after initialize(a) depends on a alone and a second initialize(a) leaves it
\* as it is.
C19_InitializeIdempotent ==
    /\ [][gen' # gen =>
            /\ authSettings' # Null
            /\ authSettings'[1] \in AuthInputs
            /\ headers' = [scheme |-> "Basic",
                           credentials |->
                               ExpectedCredentials(authSettings'[1].personalAccessToken)]
            /\ cache' = EmptyCache
            /\ UNCHANGED << ctorOptions, testMode, maxRetries, cacheTtl, now, proc >>]_vars
    /\ [][(gen' # gen /\ authSettings' = authSettings /\ cache = EmptyCache) =>
            (headers' = headers /\ cache' = cache)]_vars
    /\ [](authSettings = Null <=> gen = 0)

\* C19 witness: a second initialize with the same settings found the cache
\* populated and left it empty.
C19_Witness ==
    /\ gen = 2
    /\ epoch = 2
    /\ wiped # {}
    /\ cache = EmptyCache
    /\ authSettings # Null
    /\ \A p \in Procs : proc[p].pc = "done" => proc[p].startAuth = authSettings
    /\ \E p \in Procs : proc[p].pc = "done" /\ proc[p].writes = 1

\* a finished call of one of the two URL helpers
UrlHelperDone(p) ==
    /\ proc[p].pc = "done"
    /\ proc[p].call.op \in {"getPullRequestListUrl", "getLatestPipelineRunUrl"}

\* C21 as stated: neither URL helper issues a network request or touches the
\* cache.
C21_UrlHelpersPure ==
    \A p \in Procs :
        UrlHelperDone(p) => (proc[p].nets = 0 /\ ~proc[p].fromCache /\ proc[p].writes = 0)

\* C21 amended: getPullRequestListUrl is a pure string builder (it issues no
\* network request, reads and changes no client state, and needs no
\* initialize); getLatestPipelineRunUrl is not: it goes through
\* getPipelineStatus, so on an initialized client with a parsable
\* organization URL it is answered from the cache or issues a network request
\* for the latest build and writes the cache when that succeeds.
C21_ListUrlPureLatestRunFetches ==
    /\ [][\A p \in Procs :
            (proc[p].pc = "idle" /\ proc'[p].call.op = "getPullRequestListUrl") =>
                /\ proc'[p].pc = "done"
                /\ proc'[p].nets = 0
                /\ proc'[p].sent = NoRequest
                /\ proc'[p].result =
                      Return(JString(
                          IF proc'[p].call.repository = "r1" /\ proc'[p].call.repositoryName = "repo"
                          THEN "https://dev.azure.com/acme/proj/_git/repo/pullrequests?state=active"
                          ELSE "https://dev.azure.com/acme/proj/_pulls?state=active"))
                /\ UNCHANGED << clientVars, cache, now, origin >>]_vars
    /\ [](\A p \in Procs :
            (/\ proc[p].pc = "done"
             /\ proc[p].call.op = "getLatestPipelineRunUrl"
             /\ proc[p].startAuth # Null
             /\ proc[p].startAuth[1].organizationUrl.parses) =>
                IF proc[p].fromCache
                THEN proc[p].nets = 0
                ELSE /\ proc[p].nets >= 1
                     /\ proc[p].sent.method = "GET"
                     /\ proc[p].writes =
                            IF AttemptResult(proc[p].last).kind = "return" THEN 1 ELSE 0)

\* C21 witness: getPullRequestListUrl has built the repository URL on a client
\* that was never initialized.
C21_Witness ==
    \E p \in Procs :
        /\ gen = 0
        /\ proc[p].pc = "done"
        /\ proc[p].call.op = "getPullRequestListUrl"
        /\ proc[p].result =
              Return(JString("https://dev.azure.com/acme/proj/_git/repo/pullrequests?state=active"))

\* a finished call of an operation that needs the network, started under
\* settings whose organization URL has no path segment or does not parse
MalformedOrgCall(p) ==
    /\ proc[p].pc = "done"
    /\ proc[p].call.op \in RequestOps \cup {"testConnection"}
    /\ proc[p].startAuth # Null
    /\ proc[p].startAuth[1].organizationUrl \in {UrlNoPath, UrlInvalid}

\* C22: after initialize with an organization URL without a path segment or
\* one that is not a valid URL, every operation that needs the network ends
\* in a failure for the caller (an error, or false from testConnection),
\* whatever the endpoint answers.
C22_MalformedOrgUrlFails ==
    \A p \in Procs :
        MalformedOrgCall(p) =>
            \/ proc[p].result.kind = "throw"
            \/ proc[p].call.op = "testConnection" /\ proc[p].result = Return(JBool(FALSE))

\* C23: getPipelineStatus returns null when the fetched list is empty or the
\* body is null, and when the request fails with 404; when the list has
\* elements it returns the first one.
C23_PipelineStatusFirstOrNull ==
    \A p \in Procs :
        (proc[p].pc = "done" /\ proc[p].call.op = "getPipelineStatus") =>
            /\ proc[p].last \in {Response(200, JArray(<< >>)), Response(200, JNull),
                                 Response(404, ErrorBody)}
                   => proc[p].result = Return(JNull)
            /\ proc[p].last = Response(200, JArray(<< "b1" >>))
                   => proc[p].result = Return(JItem("b1"))
            /\ proc[p].last = Response(200, JArray(<< "b1", "b2" >>))
                   => proc[p].result = Return(JItem("b1"))
            /\ proc[p].fromCache => proc[p].result \in {Return(JNull), Return(JItem("b1"))}

\* C23 witness: a getPipelineStatus whose request was answered with an empty
\* list has returned null.
C23_Witness ==
    \E p \in Procs :
        /\ proc[p].pc = "done"
        /\ proc[p].call.op = "getPipelineStatus"
        /\ proc[p].last = Response(200, JArray(<< >>))
        /\ proc[p].result = Return(JNull)

\* cache-eligible calls: those of the model and further arguments
KeyCalls ==
    {c \in OpsCalls : CacheEligible(RequestOptions(c))}
        \cup {Call("getProjects", "", "", 0, 100, 0), Call("getProjects", "", "", 0, 1, 1),
              Call("getPipelineDefinitions", "other", "", 0, 0, 0),
              Call("getPipelineStatus", "proj", "", 43, 0, 0),
              Call("getPullRequests", "proj", "repo2", 0, 0, 0)}

\* caller p starts a request or its fetch settles in this step
Acts(p) == Starts(p) \/ Settles(p)

\* C24: two cache-eligible requests have the same cache key exactly when they
\* have the same path and the same body; a call is answered from the cache
\* only by an entry that a request with its own path wrote; and a step of a
\* call neither changes nor removes the entry of any other path.
C24_KeyPerPathAndBody ==
    /\ [](\A c1, c2 \in KeyCalls :
            (getCacheKey(Path(c1), RequestOptions(c1)) = getCacheKey(Path(c2), RequestOptions(c2)))
                <=> (Path(c1) = Path(c2) /\ RequestOptions(c1).body = RequestOptions(c2).body))
    /\ [][\A p \in Procs :
            (Starts(p) /\ proc'[p].fromCache) =>
                \E k \in DOMAIN cache :
                    /\ origin[k].path = Path(proc'[p].call)
                    /\ proc'[p].result = Wrapper(proc'[p].call.op, Return(cache[k].data))]_vars
    /\ [][\A p \in Procs :
            Acts(p) =>
                \A k \in DOMAIN cache :
                    origin[k].path # Path(proc'[p].call) =>
                        (k \in DOMAIN cache' /\ cache'[k] = cache[k])]_vars

\* C24 witness: a request for a second endpoint went to the network while the
\* first endpoint's entry was cached, and the cache now holds both.
C24_Witness ==
    \E p \in Procs :
        /\ proc[p].pc = "done"
        /\ proc[p].nets = 1
        /\ proc[p].writes = 1
        /\ Cardinality(DOMAIN cache) = 2
        /\ \E k \in DOMAIN cache : origin[k].path # Path(proc[p].call)

\* the attempt that settled last did not end in an ApiError: the fetch was
\* rejected, or the body of a success response did not parse
NonApiFailure(outcome) ==
    \/ outcome.kind = "reject"
    \/ outcome.kind = "response" /\ ResponseOk(outcome.status) /\ outcome.body = JInvalid

\* the exception such an attempt raises
OriginalException(outcome) ==
    IF outcome.kind = "reject" THEN FetchFailedError ELSE JsonSyntaxError

Pressed(b) == trigger'.presses = trigger.presses + 1 /\ trigger'.press.context = b

\* this step enters triggerPipeline
RunStarted == Len(trigger'.runs) = Len(trigger.runs) + 1

\* C25 as stated: a press of a configured, connected button that is not
\* triggering starts the pipeline run when confirmation is disabled or the
\* button shows the Confirm state, and otherwise shows the Confirm state
\* without starting a run.
C25_ConfirmThenQueue ==
    [][\A b \in Buttons :
        (/\ Pressed(b)
         /\ trigger.settings[b].configured
         /\ trigger.isConnected
         /\ ~trigger.isTriggering) =>
            IF trigger.settings[b].showConfirmation /\ trigger.title[b] # TitleConfirm
            THEN trigger'.title[b] = TitleConfirm /\ ~RunStarted
            ELSE RunStarted]_vars

\* C30: a key press that arrives while isTriggering is set changes nothing
\* (no title, no timer, no triggerPipeline call); isTriggering is set exactly
\* from the start of a triggerPipeline call until its reset timer fires; and
\* at no time is there more than one triggerPipeline call under way or more
\* than one queuePipelineRun call outstanding.
C30_OneTriggerAtATime ==
    /\ [][\A b \in Buttons :
            (Pressed(b) /\ trigger.isTriggering) =>
                trigger' = [trigger EXCEPT !.presses = trigger.presses + 1,
                                           !.press = trigger'.press]]_vars
    /\ [](Cardinality(Active) <= 1)
    /\ [](Cardinality(Outstanding) <= 1)
    /\ [](trigger.isTriggering <=> Active # {})

\* C30 witness: a key was pressed and ignored while the queuePipelineRun
\* call of an earlier press was outstanding.
C30_Witness ==
    /\ trigger.press.effect = "ignored"
    /\ trigger.isTriggering
    /\ Cardinality(Outstanding) = 1

\* the live timers whose callback refreshes button b
TimersOf(b) == {t \in LiveTimers : monitor.timers[t].context = b}

\* C26 as stated: a button that is on the deck and whose handler has started
\* polling has a live timer that refreshes it, whatever other buttons did in
\* between.
C26_VisibleButtonKeepsPolling ==
    \A b \in Buttons : (monitor.shown[b] /\ monitor.polled[b]) => TimersOf(b) # {}

\* C28 as stated: once onWillDisappear of a button has been handled, no live
\* timer refreshes that button and no timer callback starts a fetch for it.
C28_NoPollingAfterDisappear ==
    /\ [](\A b \in Buttons : ~monitor.shown[b] => TimersOf(b) = {})
    /\ [][\A b \in Buttons :
            monitor'.polling[b] > monitor.polling[b] => monitor.shown[b]]_vars

\* C29: at any time every timer setInterval has made is either the one
\* refreshTimerId holds or has been cleared, refreshTimerId never holds a
\* cleared timer, and so at most one timer is live.
C29_AtMostOneLiveTimer ==
    /\ \A t \in DOMAIN monitor.timers :
           ~monitor.timers[t].cleared <=> monitor.refreshTimerId = Some(t)
    /\ Cardinality(LiveTimers) <= 1
    /\ monitor.refreshTimerId = Null => LiveTimers = {}

\* C29 witness: after appear, settings and disappear events three timers
\* have been made; the first two are cleared and the third is current.
C29_Witness ==
    /\ Len(monitor.timers) = 3
    /\ monitor.timers[1].cleared
    /\ monitor.timers[2].cleared
    /\ monitor.refreshTimerId = Some(3)
    /\ \E b \in Buttons : ~monitor.shown[b]

\* C31: a key press on a button whose settings lack projectId or pipelineId,
\* or while the action is not connected, starts no triggerPipeline call,
\* sets no title and no timer, and leaves isTriggering and queuedBuild as
\* they were.
C31_UnusablePressInert ==
    [][\A b \in Buttons :
        (Pressed(b) /\ (~trigger.settings[b].configured \/ ~trigger.isConnected)) =>
            /\ ~RunStarted
            /\ trigger'.runs = trigger.runs
            /\ trigger'.title = trigger.title
            /\ trigger'.confirmTimers = trigger.confirmTimers
            /\ trigger'.isTriggering = trigger.isTriggering
            /\ trigger'.queuedBuild = trigger.queuedBuild]_vars

\* C31 witness: a connected action got a press on an unconfigured button
\* and did nothing.
C31_Witness ==
    /\ trigger.press.effect = "notReady"
    /\ trigger.isConnected
    /\ \E b \in Buttons : trigger.press.context = b /\ ~trigger.settings[b].configured
    /\ trigger.runs = << >>

\* a response the table classifies as retryable
RetryableResponse(outcome) ==
    outcome.kind = "response" /\ (outcome.status = 429 \/ outcome.status >= 500)

\* C36: a queuePipelineRun call whose POST is answered 429 or 5xx below the
\* ceiling is not ended: it waits (or, in test mode, goes on at once) and
\* sends the same POST (URL, Authorization, method) again; the call sends
\* at most max(1, ceiling) POSTs.
C36_QueuePostRetried ==
    /\ [][\A p \in Procs :
            (/\ proc[p].call.op = "queuePipelineRun"
             /\ Settles(p)
             /\ RetryableResponse(proc'[p].last)
             /\ proc'[p].attempt < maxRetries) =>
                /\ proc'[p].pc = IF testMode THEN "fetching" ELSE "backoff"
                /\ proc'[p].sent = proc[p].sent
                /\ proc'[p].nets = IF testMode THEN proc[p].nets + 1 ELSE proc[p].nets]_vars
    /\ [][\A p \in Procs :
            (/\ proc[p].call.op = "queuePipelineRun"
             /\ proc[p].pc = "backoff"
             /\ proc'[p].pc # "backoff") =>
                /\ proc'[p].pc = "fetching"
                /\ proc'[p].nets = proc[p].nets + 1
                /\ proc'[p].sent = proc[p].sent]_vars
    /\ [](\A p \in Procs :
            (proc[p].call.op = "queuePipelineRun" /\ proc[p].pc \in {"fetching", "backoff"}) =>
                /\ proc[p].sent.method = "POST"
                /\ proc[p].sent.url = proc[p].url
                /\ proc[p].nets <= Max(1, maxRetries))

\* C36 witness: under the ceiling 3 a queuePipelineRun call sent three POSTs,
\* waited twice, and the third was answered with the build.
C36_Witness ==
    /\ proc[Solo].pc = "done"
    /\ proc[Solo].call.op = "queuePipelineRun"
    /\ maxRetries = 3
    /\ proc[Solo].nets = 3
    /\ proc[Solo].waits = 2
    /\ proc[Solo].result.kind = "return"

\* C38: every triggerPipeline call, however its try block went, reaches its
\* 3 s reset: isTriggering, once set, is cleared again; the step that clears
\* it also clears queuedBuild, so queuedBuild is null whenever isTriggering
\* is false; and a press of a usable button that arrives then is acted on.
C38_TriggerUsableAgain ==
    /\ trigger.isTriggering ~> ~trigger.isTriggering
    /\ [](~trigger.isTriggering => trigger.queuedBuild = Null)
    /\ [][\A b \in Buttons :
            (/\ Pressed(b)
             /\ ~trigger.isTriggering
             /\ trigger.settings[b].configured
             /\ trigger.isConnected) =>
                trigger'.press.effect \in {"confirm", "trigger"}]_vars

\* C38 witness: a run whose openUrl failed was reset, and a later press
\* started the next run.
C38_Witness ==
    /\ Len(trigger.runs) = 2
    /\ trigger.runs[1].pc = "done"
    /\ trigger.runs[1].outcome = "openFailed"
    /\ trigger.press.effect = "trigger"

(***************************************************************************)
(* The settings manager.                                                   *)
(***************************************************************************)
\* the step is the start of the manager operation op
StartsOp(op) == manager'.ops = manager.ops + 1 /\ manager'.last.op = op

\* C35: after updateRefreshInterval(s) the refresh interval in the settings is
\* max(s, 10) seconds, so neither the settings in memory nor the settings
\* Stream Deck stores ever hold an interval below 10
C35_RefreshIntervalAtLeastTen ==
    /\ [][StartsOp("updateRefreshInterval") =>
              manager'.globalSettings.refreshInterval = Max(manager'.last.arg, 10)]_vars
    /\ [](manager.globalSettings.refreshInterval >= 10)
    /\ [](manager.stored # Null => manager.stored[1].refreshInterval >= 10)

\* an interval below the minimum was asked for and the minimum is what is stored
C35_Witness ==
    /\ manager.last.op = "updateRefreshInterval"
    /\ manager.last.arg < 10
    /\ manager.globalSettings.refreshInterval = 10
    /\ manager.stored # Null
    /\ manager.stored[1].refreshInterval = 10

\* no two entries of the list have the same id
NoDuplicateIds(projects) ==
    \A i, j \in DOMAIN projects : projects[i].id = projects[j].id => i = j

HasId(projects, id) == \E i \in DOMAIN projects : projects[i].id = id

\* C39: the project list never holds two projects with the same id, whatever
\* addOrUpdateProject, removeProject, toggleProjectFavorite and
\* fetchAndAddProjects calls are made and however their awaits interleave;
\* addOrUpdateProject of an id that is there replaces that entry where it is
\* (of an id that is not there, appends), and removeProject(id) leaves the
\* other entries in their order and none with that id
C39_ProjectIdsUnique ==
    /\ [](NoDuplicateIds(manager.globalSettings.projects))
    /\ [][StartsOp("addOrUpdateProject") =>
              LET old == manager.globalSettings.projects
                  new == manager'.globalSettings.projects
                  project == manager'.last.arg
              IN  IF HasId(old, project.id)
                  THEN /\ Len(new) = Len(old)
                       /\ \A k \in DOMAIN old :
                              new[k] = IF old[k].id = project.id THEN project ELSE old[k]
                  ELSE new = old \o << project >>]_vars
    /\ [][StartsOp("removeProject") =>
              LET old == manager.globalSettings.projects
                  new == manager'.globalSettings.projects
              IN  /\ ~HasId(new, manager'.last.arg)
                  /\ new = SelectSeq(old, LAMBDA p : p.id # manager'.last.arg)]_vars

\* a fetch has added two projects and addOrUpdateProject has then replaced
\* the first of them where it was
C39_Witness ==
    /\ manager.last.op = "addOrUpdateProject"
    /\ manager.fetch.result.kind = "return"
    /\ Len(manager.globalSettings.projects) = 2
    /\ manager.globalSettings.projects[1] = manager.last.arg
    /\ manager.globalSettings.projects[2].id = "p3"

\* a fetchAndAddProjects call has returned its list and no other caller wrote
\* the project list while it ran
FetchReturned ==
    /\ manager.fetch.pc = "done"
    /\ manager.fetch.result.kind = "return"
    /\ ~manager.fetch.disturbed

\* the remote entry has an id and a name
Listed(entry) == entry.id # "" /\ entry.name # ""

NonBlank(a) ==
    TrimUrl(a.organizationUrl).text # "" /\ TrimToken(a.personalAccessToken) # << >>

\* the step in which the updateAuthSettings call u resumes after its save
Resumes(u) ==
    manager.updates[u].pc = "saving" /\ manager'.updates[u].pc \in {"done", "failed"}

\* C33 as stated: an updateAuthSettings call initializes the client exactly
\* when the settings it was given are valid, then with exactly those settings,
\* and otherwise leaves the client's credentials and cache alone
C33_ReinitializeIffValid ==
    [][\A u \in Updates :
          Resumes(u) =>
              IF NonBlank(manager.updates[u].given)
              THEN /\ gen' = gen + 1
                   /\ authSettings' = Some(manager.updates[u].given)
                   /\ headers' = BasicAuthorization(manager.updates[u].given.personalAccessToken)
              ELSE UNCHANGED << gen, authSettings, headers, cache >>]_vars

\* C33, amended: an updateAuthSettings call whose save succeeded initializes
\* the client exactly when the settings then in memory (those of the latest
\* updateAuthSettings call) are valid, with exactly those settings, untrimmed,
\* and with an empty cache; a call whose save failed rejects and, like a call
\* that finds invalid settings, leaves the client's credentials and cache alone
C33_ReinitializeIffSavedAndValid ==
    /\ [][\A u \in Updates :
             Resumes(u) =>
                 /\ manager'.updates[u].pc = "failed" <=> ~manager.updates[u].saved
                 /\ IF manager.updates[u].saved /\ NonBlank(manager.globalSettings.auth)
                    THEN /\ gen' = gen + 1
                         /\ authSettings' = Some(manager.globalSettings.auth)
                         /\ headers' = BasicAuthorization(
                                           manager.globalSettings.auth.personalAccessToken)
                         /\ cache' = EmptyCache
                    ELSE UNCHANGED << gen, authSettings, headers, cache >>]_vars
    /\ [](manager.last.op = "updateAuthSettings" =>
              manager.globalSettings.auth = manager.last.arg)

\* a call given padded credentials has initialized the client with them as
\* they were given, and the data cached under the earlier credentials is gone
C33_Witness ==
    \E u \in Updates :
        /\ manager.updates[u].pc = "done"
        /\ manager.updates[u].given = AuthSettings(UrlAcmePadded, Tok1Padded)
        /\ manager.updates[u].initialized = Some(manager.updates[u].given)
        /\ authSettings = Some(manager.updates[u].given)
        /\ gen = 2
        /\ wiped # {}
        /\ cache = EmptyCache

\* the step in which the connection-test command learns what testConnection returned
Tested == manager.test.pc = "testing" /\ manager'.test.pc # "testing"

\* the step in which the command ends without having called updateAuthSettings:
\* blank credentials, or a test that failed or threw
EndsUnsaved == manager.test.pc \in {"idle", "testing"} /\ manager'.test.pc = "done"

\* C32: the connection-test command calls updateAuthSettings, with the
\* credentials it tested, exactly when testConnection returned true, and
\* nothing else starts that call; when the credentials are blank or the test
\* failed or threw, the settings Stream Deck stores and the settings in
\* memory stay as they were and a testConnectionResult with success false is
\* sent; success true is only ever sent after a test that returned true
C32_PersistOnlyOnSuccess ==
    /\ [][Tested =>
              /\ (proc[Tester].result = Return(JBool(TRUE))) <=>
                     /\ manager'.updates["command"].pc = "saving"
                     /\ manager'.updates["command"].given = manager.test.authSettings
                     /\ manager'.globalSettings.auth = manager.test.authSettings
              /\ (proc[Tester].result = Return(JBool(TRUE))) <=> manager'.test.pc = "saving"]_vars
    /\ [][(manager.updates["command"].pc = "idle" /\ manager'.updates["command"].pc # "idle") =>
              Tested /\ proc[Tester].result = Return(JBool(TRUE))]_vars
    /\ [][EndsUnsaved =>
              /\ manager'.stored = manager.stored
              /\ manager'.globalSettings = manager.globalSettings
              /\ manager'.updates = manager.updates
              /\ manager'.test.reply # Null
              /\ manager'.test.reply[1].command = "testConnectionResult"
              /\ ~manager'.test.reply[1].success]_vars
    /\ [](manager.test.reply # Null /\ manager.test.reply[1].success =>
              manager.test.tested = Some(TRUE))

\* credentials were stored, then a command with other credentials failed its
\* test: the stored ones are still there and success false was sent
C32_Witness ==
    /\ manager.test.pc = "done"
    /\ manager.test.tested = Some(FALSE)
    /\ manager.test.reply = Some(Reply(FALSE, FailedMessage))
    /\ manager.stored # Null
    /\ manager.stored = manager.test.before
    /\ manager.stored[1].auth = ProjectsAuth
    /\ manager.test.authSettings = AuthSettings(UrlAcme, Tok2)

\* the latest connection test failed and nothing has initialized the client since
FailedTestStands == manager.test.tested = Some(FALSE) /\ gen = manager.test.gen

\* the Authorization header of the credentials the command tested
TestedAuthorization == BasicAuthorization(manager.test.authSettings.personalAccessToken)

\* C37: a connection-test command with non-blank credentials initializes the
\* shared client with them, emptying the cache, before it tests; a test that
\* fails puts nothing back; so from then until some later initialize the
\* client holds the failed credentials, every request a poller starts is sent
\* with them, and the settings Stream Deck stores are still the old ones
C37_FailedTestReplacesClientConfiguration ==
    /\ [][(manager.test.pc = "idle" /\ manager'.test.pc = "testing") =>
              /\ gen' = gen + 1
              /\ authSettings' = Some(manager'.test.authSettings)
              /\ headers' = BasicAuthorization(manager'.test.authSettings.personalAccessToken)
              /\ cache' = EmptyCache]_vars
    /\ [][(Tested /\ proc[Tester].result # Return(JBool(TRUE))) =>
              /\ UNCHANGED << gen, authSettings, headers >>
              /\ manager'.stored = manager.stored]_vars
    /\ [](FailedTestStands =>
              authSettings = Some(manager.test.authSettings) /\ headers = TestedAuthorization)
    /\ [][(FailedTestStands /\ proc[Poller].pc = "idle" /\ proc'[Poller].pc # "idle") =>
              /\ proc'[Poller].authorization = TestedAuthorization
              /\ proc'[Poller].startAuth = Some(manager.test.authSettings)
              /\ proc'[Poller].pc = "fetching" =>
                     proc'[Poller].sent.authorization = TestedAuthorization]_vars

\* token t1 was saved, a command with token t2 failed its test, and a poll
\* started afterwards is in flight with t2 while Stream Deck still stores t1
C37_Witness ==
    /\ FailedTestStands
    /\ manager.test.pc = "done"
    /\ manager.test.authSettings = AuthSettings(UrlAcme, Tok2)
    /\ manager.stored # Null
    /\ manager.stored[1].auth = AuthSettings(UrlAcme, Tok1)
    /\ manager.globalSettings.auth = AuthSettings(UrlAcme, Tok1)
    /\ proc[Poller].pc = "fetching"
    /\ proc[Poller].startAuth = Some(manager.test.authSettings)
    /\ proc[Poller].sent.authorization = BasicAuthorization(Tok2)
====
